---- MODULE Spec2Model ----
(***************************************************************************)
(* A state-machine model of warpkate's terminal emulation engine           *)
(* (src/src/terminalemulator.cpp, class TerminalEmulator): the screen      *)
(* buffers, the cursor, the current format, and the byte-oriented          *)
(* escape-sequence parser, and the shell session behind the PTY.           *)
(*                                                                         *)
(* Bytes are modelled by their ASCII codes, byte strings by sequences of   *)
(* codes.  Rows, columns and QVector indices are 0-based as in the code;   *)
(* TLA+ sequences are 1-based, so an index i of the code is i + 1 here.    *)
(***************************************************************************)
EXTENDS Integers, Sequences, FiniteSets, TLC

VARIABLES
    m_initialized,
    m_screen,
    m_alternateScreen,
    m_currentFormat,
    m_cursorPosition,
    m_terminalSize,
    m_cursorVisible,
    m_alternateScreenActive,
    m_applicationCursorKeys,
    m_bracketedPasteMode,
    m_scrollRegionTop,
    m_scrollRegionBottom,
    m_savedCursorPosition,
    m_savedFormat,
    m_defaultForeground,
    m_defaultBackground,
    m_escapeBuffer,
    m_parsingEscapeSequence,
    m_newLineMode,
    m_workingDirectory,
    m_terminalTitle,
    m_ptyFd,
    m_ptyNotifier,
    m_shellPid,
    m_busy,
    m_lastExitCode,
    m_commandExecuting,
    m_currentCommand,
    m_currentOutput,
    m_blockModeEnabled,
    m_currentBlockId,
    ptyCalls,     \* the system calls the last operation made on the PTY, in order
    emitted,      \* the signals emitted by the last operation, in order
    ub,           \* a QVector was indexed out of range (undefined behaviour)
    ret,          \* the value returned by the last call that returns one
    op,           \* the last operation and its arguments
    pre,          \* the emulator state before the last operation
    op2,          \* the operation before the last one
    pre2,         \* the emulator state before that operation
    steps,        \* the number of operations applied since initialize
    blockModel,       \* the members of the BlockModel
    m_commandHistory, \* the command history of each class that keeps one
    issued,           \* the block ids createBlock has returned, in order
    preRecords        \* blockModel and m_commandHistory before the last operation on them

vars == << m_initialized, m_screen, m_alternateScreen, m_currentFormat,
           m_cursorPosition, m_terminalSize, m_cursorVisible,
           m_alternateScreenActive, m_applicationCursorKeys,
           m_bracketedPasteMode, m_scrollRegionTop, m_scrollRegionBottom,
           m_savedCursorPosition, m_savedFormat, m_defaultForeground,
           m_defaultBackground, m_escapeBuffer,
           m_parsingEscapeSequence, m_newLineMode, m_workingDirectory,
           m_terminalTitle, m_ptyFd, m_ptyNotifier, m_shellPid, m_busy,
           m_lastExitCode, m_commandExecuting, m_currentCommand,
           m_currentOutput, m_blockModeEnabled, m_currentBlockId, ptyCalls,
           emitted, ub, ret, op, pre, op2, pre2, steps,
           blockModel, m_commandHistory, issued, preRecords >>

(***************************************************************************)
(* Bounds of the model.                                                    *)
(***************************************************************************)
MaxRows == 3
MaxCols == 4
MaxSteps == 3
MaxSplitSteps == 2
MaxFormatSteps == 3
MaxScrollSteps == 5
MaxScroll == 2
MaxScreenSteps == 3
MaxSessionSteps == 3
MaxCommandSteps == 4
MaxStraySteps == 3
MaxRecordSteps == 4
MaxLineFeedSteps == 4
MaxRegionSteps == 3
MaxPositionSteps == 3
MaxEraseSteps == 3
MaxAttributeSteps == 3
MaxColourSteps == 2
MaxSnapshotSteps == 3
MaxOscSteps == 2
MaxResetSteps == 3
MaxCursorSteps == 3
MaxBlockSteps == 3

(***************************************************************************)
(* Bytes.                                                                  *)
(***************************************************************************)
Ascii ==
    [ESC |-> 27, BEL |-> 7, BS |-> 8, TAB |-> 9, LF |-> 10, FF |-> 12,
     CR |-> 13, SP |-> 32, MINUS |-> 45, PLUS |-> 43, SLASH |-> 47,
     SEMI |-> 59, QM |-> 63, LBR |-> 91, BSL |-> 92, RBR |-> 93,
     D0 |-> 48, D1 |-> 49, D2 |-> 50, D3 |-> 51, D4 |-> 52, D5 |-> 53,
     D6 |-> 54, D7 |-> 55, D8 |-> 56, D9 |-> 57,
     A |-> 65, B |-> 66, C |-> 67, D |-> 68, E |-> 69, F |-> 70, G |-> 71,
     H |-> 72, J |-> 74, K |-> 75, M |-> 77, Z |-> 90,
     a |-> 97, b |-> 98, c |-> 99, f |-> 102, h |-> 104, l |-> 108,
     m |-> 109, p |-> 112, r |-> 114, s |-> 115, u |-> 117, x |-> 120,
     z |-> 122, O |-> 79, P |-> 80, Q |-> 81, R |-> 82, S |-> 83,
     TILDE |-> 126, DEL |-> 127]

\* The byte string spelled by a sequence of names of Ascii.
Enc(names) == [i \in 1..Len(names) |-> Ascii[names[i]]]

Min(a, b) == IF a < b THEN a ELSE b
Max(a, b) == IF a > b THEN a ELSE b

(***************************************************************************)
(* QByteArray operations (0-based positions).                              *)
(***************************************************************************)
\* QByteArray::mid(pos, len)
Mid(bytes, pos, len) ==
    LET n == Len(bytes)
        from == Max(pos, 0)
        to == IF len < 0 THEN n ELSE Min(pos + len, n)
    IN  IF from >= to THEN << >> ELSE SubSeq(bytes, from + 1, to)

\* QByteArray::indexOf(ch): the first position of ch, or -1
IndexOf(bytes, ch) ==
    IF \E i \in 1..Len(bytes) : bytes[i] = ch
    THEN (CHOOSE i \in 1..Len(bytes) :
              bytes[i] = ch /\ \A j \in 1..(i - 1) : bytes[j] # ch) - 1
    ELSE -1

\* QByteArray::split(sep): the pieces between separators, empty pieces kept
RECURSIVE Split(_, _)
Split(bytes, sep) ==
    LET i == IndexOf(bytes, sep)
    IN  IF i < 0 THEN << bytes >>
        ELSE << Mid(bytes, 0, i) >> \o Split(Mid(bytes, i + 1, -1), sep)

IsDigit(ch) == ch >= Ascii.D0 /\ ch <= Ascii.D9
IsSpace(ch) == ch = Ascii.SP \/ (ch >= Ascii.TAB /\ ch <= Ascii.CR)

RECURSIVE TrimLeft(_)
TrimLeft(bytes) ==
    IF bytes # << >> /\ IsSpace(Head(bytes)) THEN TrimLeft(Tail(bytes)) ELSE bytes

RECURSIVE TrimRight(_)
TrimRight(bytes) ==
    IF bytes # << >> /\ IsSpace(bytes[Len(bytes)])
    THEN TrimRight(SubSeq(bytes, 1, Len(bytes) - 1)) ELSE bytes

RECURSIVE DigitsValue(_)
DigitsValue(bytes) ==
    IF bytes = << >> THEN 0
    ELSE 10 * DigitsValue(SubSeq(bytes, 1, Len(bytes) - 1))
         + (bytes[Len(bytes)] - Ascii.D0)

IntMax == 2147483647

\* QByteArray::toInt(&ok): [ok, value]; surrounding white space and a sign are
\* accepted, anything else and a value outside int make ok false.
ToInt(bytes) ==
    LET Result(val, good) == [ok |-> good, value |-> IF good THEN val ELSE 0]
        Checked(digits, val) ==
            Result(val, /\ digits # << >>
                        /\ \A i \in 1..Len(digits) : IsDigit(digits[i])
                        /\ val <= IntMax /\ val >= 0 - IntMax - 1)
        Valued(negative, digits, mag) ==
            Checked(digits, IF negative THEN 0 - mag ELSE mag)
        Digits(negative, digits) == Valued(negative, digits, DigitsValue(digits))
        Signed(t, signed) ==
            Digits(signed /\ Head(t) = Ascii.MINUS, IF signed THEN Tail(t) ELSE t)
        Trimmed(t) == Signed(t, t # << >> /\ Head(t) \in {Ascii.MINUS, Ascii.PLUS})
    IN  Trimmed(TrimRight(TrimLeft(bytes)))

\* QString::fromUtf8 of a byte string: an ASCII byte is its own code point,
\* any other byte decodes to U+FFFD here (the model feeds no multi-byte text).
fromUtf8(bytes) ==
    [i \in 1..Len(bytes) |-> IF bytes[i] < 128 THEN bytes[i] ELSE 65533]

\* QString::toUtf8 of a string of code points of the Basic Multilingual Plane.
RECURSIVE toUtf8(_)
toUtf8(text) ==
    IF text = << >> THEN << >>
    ELSE LET cp == Head(text)
             bytes == IF cp < 128 THEN << cp >>
                      ELSE IF cp < 2048
                      THEN << 192 + (cp \div 64), 128 + (cp % 64) >>
                      ELSE << 224 + (cp \div 4096), 128 + ((cp \div 64) % 64),
                              128 + (cp % 64) >>
         IN  bytes \o toUtf8(Tail(text))

(***************************************************************************)
(* Colours, formats, cells, lines.                                         *)
(***************************************************************************)
InvalidColor == << -1, -1, -1 >>

\* QColor(r, g, b): invalid when a component is outside 0..255
QColor(r, g, b) ==
    IF r \in 0..255 /\ g \in 0..255 /\ b \in 0..255 THEN << r, g, b >>
    ELSE InvalidColor

QtWhite == << 255, 255, 255 >>
QtBlack == << 0, 0, 0 >>

\* The 16 entries the constructor stores in m_colorPalette (keys 0..15).
m_colorPalette ==
    << << 0, 0, 0 >>, << 170, 0, 0 >>, << 0, 170, 0 >>, << 170, 85, 0 >>,
       << 0, 0, 170 >>, << 170, 0, 170 >>, << 0, 170, 170 >>,
       << 170, 170, 170 >>, << 85, 85, 85 >>, << 255, 85, 85 >>,
       << 85, 255, 85 >>, << 255, 255, 85 >>, << 85, 85, 255 >>,
       << 255, 85, 255 >>, << 85, 255, 255 >>, << 255, 255, 255 >> >>

PaletteContains(code) == code >= 0 /\ code <= 15

\* m_colorPalette[code]: QMap::operator[] yields a default-constructed
\* (invalid) QColor for a key that is not stored.
Palette(code) ==
    IF PaletteContains(code) THEN m_colorPalette[code + 1] ELSE InvalidColor


\* enum TerminalAttribute
Attr ==
    [Bold |-> 1, Italic |-> 2, Underline |-> 4, StrikeThrough |-> 8,
     Reverse |-> 16, Blink |-> 32, Dim |-> 64, Invisible |-> 128]

HasBit(a, f) == (a \div f) % 2 = 1
BitOr(a, f) == IF HasBit(a, f) THEN a ELSE a + f          \* a |= f
BitClear(a, f) == IF HasBit(a, f) THEN a - f ELSE a       \* a &= ~f

\* TerminalCharFormat()
TerminalCharFormat == [foreground |-> QtWhite, background |-> QtBlack, attributes |-> 0]

\* The default Format of the session: default colours, no attributes.
DefaultFormat ==
    [foreground |-> m_defaultForeground, background |-> m_defaultBackground,
     attributes |-> 0]

TerminalCell(ch, fmt) == [character |-> ch, format |-> fmt]

QPoint(px, py) == [x |-> px, y |-> py]
QSize(w, h) == [width |-> w, height |-> h]

(***************************************************************************)
(* The emulator state as one record, so that the member functions are      *)
(* operators from records to records.                                      *)
(***************************************************************************)
Emu ==
    [m_initialized |-> m_initialized,
     m_screen |-> m_screen,
     m_alternateScreen |-> m_alternateScreen,
     m_currentFormat |-> m_currentFormat,
     m_cursorPosition |-> m_cursorPosition,
     m_terminalSize |-> m_terminalSize,
     m_cursorVisible |-> m_cursorVisible,
     m_alternateScreenActive |-> m_alternateScreenActive,
     m_applicationCursorKeys |-> m_applicationCursorKeys,
     m_bracketedPasteMode |-> m_bracketedPasteMode,
     m_scrollRegionTop |-> m_scrollRegionTop,
     m_scrollRegionBottom |-> m_scrollRegionBottom,
     m_savedCursorPosition |-> m_savedCursorPosition,
     m_savedFormat |-> m_savedFormat,
     m_defaultForeground |-> m_defaultForeground,
     m_defaultBackground |-> m_defaultBackground,
     m_escapeBuffer |-> m_escapeBuffer,
     m_parsingEscapeSequence |-> m_parsingEscapeSequence,
     m_newLineMode |-> m_newLineMode,
     m_workingDirectory |-> m_workingDirectory,
     m_terminalTitle |-> m_terminalTitle,
     m_ptyFd |-> m_ptyFd,
     m_ptyNotifier |-> m_ptyNotifier,
     m_shellPid |-> m_shellPid,
     m_busy |-> m_busy,
     m_lastExitCode |-> m_lastExitCode,
     m_commandExecuting |-> m_commandExecuting,
     m_currentCommand |-> m_currentCommand,
     m_currentOutput |-> m_currentOutput,
     m_blockModeEnabled |-> m_blockModeEnabled,
     m_currentBlockId |-> m_currentBlockId,
     ptyCalls |-> ptyCalls,
     emitted |-> emitted,
     ub |-> ub,
     ret |-> ret]

\* The state after the constructor (terminalemulator.cpp:38-99).
Constructed ==
    [m_initialized |-> FALSE,
     m_screen |-> << >>,
     m_alternateScreen |-> << >>,
     m_currentFormat |-> TerminalCharFormat,
     m_cursorPosition |-> QPoint(0, 0),
     m_terminalSize |-> QSize(-1, -1),
     m_cursorVisible |-> TRUE,
     m_alternateScreenActive |-> FALSE,
     m_applicationCursorKeys |-> FALSE,
     m_bracketedPasteMode |-> FALSE,
     m_scrollRegionTop |-> 0,
     m_scrollRegionBottom |-> 0,
     m_savedCursorPosition |-> QPoint(0, 0),
     m_savedFormat |-> TerminalCharFormat,
     m_defaultForeground |-> QtWhite,
     m_defaultBackground |-> QtBlack,
     m_escapeBuffer |-> << >>,
     m_parsingEscapeSequence |-> FALSE,
     m_newLineMode |-> FALSE,
     m_workingDirectory |-> << >>,
     m_terminalTitle |-> << >>,
     m_ptyFd |-> 0 - 1,
     m_ptyNotifier |-> "nullptr",
     m_shellPid |-> 0,
     m_busy |-> FALSE,
     m_lastExitCode |-> 0,
     m_commandExecuting |-> FALSE,
     m_currentCommand |-> << >>,
     m_currentOutput |-> << >>,
     m_blockModeEnabled |-> TRUE,
     m_currentBlockId |-> 0,
     ptyCalls |-> << >>,
     emitted |-> << >>,
     ub |-> FALSE,
     ret |-> 0]

Emit(s, sig) == [s EXCEPT !.emitted = Append(@, sig)]

\* A system call on the PTY descriptor.
PtyCall(s, call) == [s EXCEPT !.ptyCalls = Append(@, call)]

activeScreen(s) ==
    IF s.m_alternateScreenActive THEN s.m_alternateScreen ELSE s.m_screen

\* SetActiveScreen storing into the primary screen whichever screen is active.
SetActiveScreen_primary(s, scr) == [s EXCEPT !.m_screen = scr]

SetActiveScreen(s, scr) ==
    IF s.m_alternateScreenActive THEN [s EXCEPT !.m_alternateScreen = scr]
    ELSE [s EXCEPT !.m_screen = scr]

(***************************************************************************)
(* QVector<TerminalLine> operations.  An index outside the vector is       *)
(* undefined behaviour (Q_ASSERT in a debug build, a wild memmove in a     *)
(* release build); the outcome u is chosen by the environment: "none"      *)
(* leaves the vector as it is, "clamped" acts at the nearest valid index.  *)
(* Either way the step is recorded in ub.                                  *)
(***************************************************************************)
UBOutcomes == {"none", "clamped"}

RemoveIndex(v, i) == SubSeq(v, 1, i) \o SubSeq(v, i + 2, Len(v))
InsertIndex(v, i, e) == SubSeq(v, 1, i) \o << e >> \o SubSeq(v, i + 1, Len(v))

\* QVector::removeAt(i): [v, ub]
removeAt(v, i, u) ==
    IF i >= 0 /\ i < Len(v) THEN [v |-> RemoveIndex(v, i), ub |-> FALSE]
    ELSE [v |-> IF u = "clamped" /\ Len(v) > 0 THEN RemoveIndex(v, Len(v) - 1) ELSE v,
          ub |-> TRUE]

\* QVector::insert(i, e): [v, ub]
insert(v, i, e, u) ==
    IF i >= 0 /\ i <= Len(v) THEN [v |-> InsertIndex(v, i, e), ub |-> FALSE]
    ELSE [v |-> IF u = "clamped" THEN Append(v, e) ELSE v, ub |-> TRUE]

(***************************************************************************)
(* The member functions of TerminalEmulator.                               *)
(***************************************************************************)
\* setCursorPositionInternal as it would be with the size as the limit.
setCursorPositionInternal_clampsToSize(s, x, y) ==
    LET cx == Max(0, Min(x, s.m_terminalSize.width))
        cy == Max(0, Min(y, s.m_terminalSize.height))
        moved == [s EXCEPT !.m_cursorPosition = QPoint(cx, cy)]
    IN  IF s.m_cursorPosition # QPoint(cx, cy)
        THEN Emit(moved, << "cursorPositionChanged", QPoint(cx, cy) >>)
        ELSE moved

setCursorPositionInternal(s, x, y) ==
    LET width == s.m_terminalSize.width
        height == s.m_terminalSize.height
        cx == Max(0, Min(x, width - 1))
        cy == Max(0, Min(y, height - 1))
        moved == [s EXCEPT !.m_cursorPosition = QPoint(cx, cy)]
    IN  IF s.m_cursorPosition # QPoint(cx, cy)
        THEN Emit(moved, << "cursorPositionChanged", QPoint(cx, cy) >>)
        ELSE moved

createBlankLine(s) ==
    [i \in 1..Max(s.m_terminalSize.width, 0) |->
        TerminalCell(Ascii.SP, s.m_currentFormat)]

\* scrollUpOnce without the m_scrollRegionTop < m_scrollRegionBottom test.
scrollUpOnce_unguarded(s, u) ==
    LET r == removeAt(activeScreen(s), s.m_scrollRegionTop, u)
        i == insert(r.v, s.m_scrollRegionBottom, createBlankLine(s), u)
    IN  [SetActiveScreen(s, i.v) EXCEPT !.ub = @ \/ r.ub \/ i.ub]

\* One iteration of the scroll-up loop of scrollScreen.
scrollUpOnce(s, u) ==
    IF s.m_scrollRegionTop < s.m_scrollRegionBottom
    THEN LET r == removeAt(activeScreen(s), s.m_scrollRegionTop, u)
             i == insert(r.v, s.m_scrollRegionBottom, createBlankLine(s), u)
         IN  [SetActiveScreen(s, i.v) EXCEPT !.ub = @ \/ r.ub \/ i.ub]
    ELSE s

\* One iteration of the scroll-down loop of scrollScreen.
scrollDownOnce(s, u) ==
    IF s.m_scrollRegionTop < s.m_scrollRegionBottom
    THEN LET r == removeAt(activeScreen(s), s.m_scrollRegionBottom, u)
             i == insert(r.v, s.m_scrollRegionTop, createBlankLine(s), u)
         IN  [SetActiveScreen(s, i.v) EXCEPT !.ub = @ \/ r.ub \/ i.ub]
    ELSE s

RECURSIVE scrollUpLoop(_, _, _)
scrollUpLoop(s, n, u) ==
    IF n <= 0 THEN s ELSE scrollUpLoop(scrollUpOnce(s, u), n - 1, u)

RECURSIVE scrollDownLoop(_, _, _)
scrollDownLoop(s, n, u) ==
    IF n <= 0 THEN s ELSE scrollDownLoop(scrollDownOnce(s, u), n - 1, u)

scrollScreen(s, lines, u) ==
    IF lines = 0 THEN s
    ELSE IF lines > 0 THEN scrollUpLoop(s, lines, u)
    ELSE scrollDownLoop(s, 0 - lines, u)

\* A line with the cells at the 0-based positions from..to (those that exist)
\* replaced by TerminalCell(' ', fmt).
BlankRange(line, from, to, fmt) ==
    [i \in 1..Len(line) |->
        IF i - 1 >= from /\ i - 1 <= to THEN TerminalCell(Ascii.SP, fmt)
        ELSE line[i]]

BlankLineCells(line, fmt) == BlankRange(line, 0, Len(line) - 1, fmt)

clear(s) ==
    LET scr == activeScreen(s)
        blanked == [i \in 1..Len(scr) |-> BlankLineCells(scr[i], s.m_currentFormat)]
    IN  setCursorPositionInternal(SetActiveScreen(s, blanked), 0, 0)

\* The cell store of putCharacter: the line is extended with blanks up to the
\* cursor column when it is too short, then the cell is assigned.
storeCell(line, x, ch, fmt) ==
    LET wide == IF x >= Len(line)
                THEN line \o [i \in 1..(x + 1 - Len(line)) |-> TerminalCell(Ascii.SP, fmt)]
                ELSE line
    IN  [wide EXCEPT ![x + 1] = TerminalCell(ch, fmt)]

\* The cursor advance of putCharacter, with the wrap and the scroll check.
advanceCursor(s, u) ==
    IF s.m_cursorPosition.x + 1 >= s.m_terminalSize.width
    THEN LET w == setCursorPositionInternal(s, 0, s.m_cursorPosition.y + 1)
         IN  IF w.m_cursorPosition.y > w.m_scrollRegionBottom
             THEN setCursorPositionInternal(scrollScreen(w, 1, u), 0, w.m_scrollRegionBottom)
             ELSE w
    ELSE setCursorPositionInternal(s, s.m_cursorPosition.x + 1, s.m_cursorPosition.y)

putCharacter(s, ch, u) ==
    LET scr == activeScreen(s)
        x == s.m_cursorPosition.x
        y == s.m_cursorPosition.y
    IN  IF y < 0 \/ y >= Len(scr) THEN s
        ELSE advanceCursor(
                 SetActiveScreen(s,
                     [scr EXCEPT ![y + 1] = storeCell(@, x, ch, s.m_currentFormat)]),
                 u)

parseParameters(sequence, start, length) ==
    LET len == Min(length, Len(sequence) - start)
    IN  IF len <= 0 THEN << >>
        ELSE LET paramList == Split(Mid(sequence, start, len), Ascii.SEMI)
             IN  [i \in 1..Len(paramList) |-> ToInt(paramList[i]).value]

isEscapeSequenceFinal(ch) == ch >= 64 /\ ch <= 126

(***************************************************************************)
(* SGR.                                                                    *)
(***************************************************************************)
\* resetFormat restoring the two colours only.
resetFormat_keepsAttributes(s) ==
    [s EXCEPT !.m_currentFormat.foreground = s.m_defaultForeground,
              !.m_currentFormat.background = s.m_defaultBackground]

\* SGR parameter 0 and the empty parameter list: m_currentFormat =
\* TerminalCharFormat() followed by the two default colours.
resetFormat(s) ==
    [s EXCEPT !.m_currentFormat =
        [TerminalCharFormat EXCEPT !.foreground = s.m_defaultForeground,
                                   !.background = s.m_defaultBackground]]

setAttribute(s, f) ==
    [s EXCEPT !.m_currentFormat.attributes = BitOr(@, f)]

clearAttribute(s, f) ==
    [s EXCEPT !.m_currentFormat.attributes = BitClear(@, f)]

\* The colour of a 256-colour index (cases 38 and 48, "5;index").
color256(colorCode) ==
    IF PaletteContains(colorCode) THEN Palette(colorCode)
    ELSE IF colorCode < 16 THEN Palette(colorCode)
    ELSE IF colorCode < 232
         THEN LET colorIndex == colorCode - 16
              IN  QColor((colorIndex \div 36) * 51,
                         ((colorIndex \div 6) % 6) * 51,
                         (colorIndex % 6) * 51)
    ELSE LET grayLevel == (colorCode - 232) * 11
         IN  QColor(grayLevel, grayLevel, grayLevel)

\* Cases 38 and 48 as they would be without "i += 2" and "i += 4".
extendedColor_noSkip(parameters, i) ==
    LET size == Len(parameters)
    IN  IF i + 2 < size /\ parameters[i + 2] = 5
        THEN [has |-> TRUE, color |-> color256(parameters[i + 3]), skip |-> 0]
        ELSE IF i + 4 < size /\ parameters[i + 2] = 2
        THEN [has |-> TRUE,
              color |-> QColor(parameters[i + 3], parameters[i + 4], parameters[i + 5]),
              skip |-> 0]
        ELSE [has |-> FALSE, color |-> InvalidColor, skip |-> 0]

\* Cases 38 and 48 at 0-based position i: [has, color, skip]
extendedColor(parameters, i) ==
    LET size == Len(parameters)
    IN  IF i + 2 < size /\ parameters[i + 2] = 5
        THEN [has |-> TRUE, color |-> color256(parameters[i + 3]), skip |-> 2]
        ELSE IF i + 4 < size /\ parameters[i + 2] = 2
        THEN [has |-> TRUE,
              color |-> QColor(parameters[i + 3], parameters[i + 4], parameters[i + 5]),
              skip |-> 4]
        ELSE [has |-> FALSE, color |-> InvalidColor, skip |-> 0]

\* The body of the switch of processSGR for the parameter at 0-based position
\* i: [s, i], i being the position the loop's ++i then starts from.
sgrParameter(s, parameters, i) ==
    LET param == parameters[i + 1]
        ext == extendedColor(parameters, i)
    IN  CASE param = 0 -> [s |-> resetFormat(s), i |-> i]
          [] param = 1 -> [s |-> setAttribute(s, Attr.Bold), i |-> i]
          [] param = 2 -> [s |-> setAttribute(s, Attr.Dim), i |-> i]
          [] param = 3 -> [s |-> setAttribute(s, Attr.Italic), i |-> i]
          [] param = 4 -> [s |-> setAttribute(s, Attr.Underline), i |-> i]
          [] param \in {5, 6} -> [s |-> setAttribute(s, Attr.Blink), i |-> i]
          [] param = 7 -> [s |-> setAttribute(s, Attr.Reverse), i |-> i]
          [] param = 8 -> [s |-> setAttribute(s, Attr.Invisible), i |-> i]
          [] param = 9 -> [s |-> setAttribute(s, Attr.StrikeThrough), i |-> i]
          [] param = 21 -> [s |-> s, i |-> i]
          [] param = 22 ->
                [s |-> clearAttribute(clearAttribute(s, Attr.Bold), Attr.Dim), i |-> i]
          [] param = 23 -> [s |-> clearAttribute(s, Attr.Italic), i |-> i]
          [] param = 24 -> [s |-> clearAttribute(s, Attr.Underline), i |-> i]
          [] param = 25 -> [s |-> clearAttribute(s, Attr.Blink), i |-> i]
          [] param = 27 -> [s |-> clearAttribute(s, Attr.Reverse), i |-> i]
          [] param = 28 -> [s |-> clearAttribute(s, Attr.Invisible), i |-> i]
          [] param = 29 -> [s |-> clearAttribute(s, Attr.StrikeThrough), i |-> i]
          [] param \in 30..37 ->
                [s |-> [s EXCEPT !.m_currentFormat.foreground = Palette(param - 30)],
                 i |-> i]
          [] param = 38 ->
                [s |-> IF ext.has
                       THEN [s EXCEPT !.m_currentFormat.foreground = ext.color]
                       ELSE s,
                 i |-> i + ext.skip]
          [] param = 39 ->
                [s |-> [s EXCEPT !.m_currentFormat.foreground = s.m_defaultForeground],
                 i |-> i]
          [] param \in 40..47 ->
                [s |-> [s EXCEPT !.m_currentFormat.background = Palette(param - 40)],
                 i |-> i]
          [] param = 48 ->
                [s |-> IF ext.has
                       THEN [s EXCEPT !.m_currentFormat.background = ext.color]
                       ELSE s,
                 i |-> i + ext.skip]
          [] param = 49 ->
                [s |-> [s EXCEPT !.m_currentFormat.background = s.m_defaultBackground],
                 i |-> i]
          [] param \in 90..97 ->
                [s |-> [s EXCEPT !.m_currentFormat.foreground = Palette(param - 90 + 8)],
                 i |-> i]
          [] param \in 100..107 ->
                [s |-> [s EXCEPT !.m_currentFormat.background = Palette(param - 100 + 8)],
                 i |-> i]
          [] OTHER -> [s |-> s, i |-> i]

\* The parameters the switch of processSGR has a case for.
SgrCases ==
    (0..9) \cup (21..25) \cup (27..29) \cup (30..49) \cup (90..97) \cup (100..107)

\* The loop of processSGR as it would be if the default case returned.
RECURSIVE sgrLoop_stopsAtUnknown(_, _, _)
sgrLoop_stopsAtUnknown(s, parameters, i) ==
    IF i >= Len(parameters) \/ parameters[i + 1] \notin SgrCases THEN s
    ELSE LET r == sgrParameter(s, parameters, i)
         IN  sgrLoop_stopsAtUnknown(r.s, parameters, r.i + 1)

RECURSIVE sgrLoop(_, _, _)
sgrLoop(s, parameters, i) ==
    IF i >= Len(parameters) THEN s
    ELSE LET r == sgrParameter(s, parameters, i)
         IN  sgrLoop(r.s, parameters, r.i + 1)

processSGR(s, parameters) ==
    IF parameters = << >> THEN resetFormat(s) ELSE sgrLoop(s, parameters, 0)

(***************************************************************************)
(* CSI.                                                                    *)
(***************************************************************************)
IsLetter(ch) ==
    (ch >= Ascii.A /\ ch <= Ascii.Z) \/ (ch >= Ascii.a /\ ch <= Ascii.z)

\* The 0-based position of the first letter at or after position 2, or the
\* length of the sequence when there is none.
finalBytePosOf(sequence) ==
    IF \E i \in 2..(Len(sequence) - 1) : IsLetter(sequence[i + 1])
    THEN CHOOSE i \in 2..(Len(sequence) - 1) :
             /\ IsLetter(sequence[i + 1])
             /\ \A j \in 2..(i - 1) : ~IsLetter(sequence[j + 1])
    ELSE Max(Len(sequence), 2)

\* The distance of a relative cursor move: default 1, at least 1.
moveDistance(parameters) ==
    LET n == IF parameters = << >> THEN 1 ELSE parameters[1]
    IN  IF n < 1 THEN 1 ELSE n

saveCursor(s) ==
    [s EXCEPT !.m_savedCursorPosition = s.m_cursorPosition,
              !.m_savedFormat = s.m_currentFormat]

restoreCursor(s) ==
    [s EXCEPT !.m_cursorPosition = s.m_savedCursorPosition,
              !.m_currentFormat = s.m_savedFormat]

\* Erase display (J).
eraseDisplay(s, mode) ==
    LET scr == activeScreen(s)
        fmt == s.m_currentFormat
        currentX == s.m_cursorPosition.x
        currentY == s.m_cursorPosition.y
    IN  CASE mode = 0 ->
               IF currentY < Len(scr)
               THEN SetActiveScreen(s,
                        [y \in 1..Len(scr) |->
                            IF y - 1 = currentY
                            THEN BlankRange(scr[y], currentX, Len(scr[y]) - 1, fmt)
                            ELSE IF y - 1 > currentY THEN BlankLineCells(scr[y], fmt)
                            ELSE scr[y]])
               ELSE s
          [] mode = 1 ->
               SetActiveScreen(s,
                   [y \in 1..Len(scr) |->
                       IF y - 1 < currentY THEN BlankLineCells(scr[y], fmt)
                       ELSE IF y - 1 = currentY
                       THEN BlankRange(scr[y], 0, Min(currentX, Len(scr[y]) - 1), fmt)
                       ELSE scr[y]])
          [] mode \in {2, 3} ->
               SetActiveScreen(s, [y \in 1..Len(scr) |-> BlankLineCells(scr[y], fmt)])
          [] OTHER -> s

\* Erase in line (K).
eraseLine(s, mode) ==
    LET scr == activeScreen(s)
        fmt == s.m_currentFormat
        currentX == s.m_cursorPosition.x
        currentY == s.m_cursorPosition.y
    IN  IF currentY < 0 \/ currentY >= Len(scr) THEN s
        ELSE LET line == scr[currentY + 1]
                 erased ==
                    CASE mode = 0 -> BlankRange(line, currentX, Len(line) - 1, fmt)
                      [] mode = 1 -> BlankRange(line, 0, currentX, fmt)
                      [] mode = 2 -> BlankLineCells(line, fmt)
                      [] OTHER -> line
             IN  SetActiveScreen(s, [scr EXCEPT ![currentY + 1] = erased])

\* DECSTBM (r) as it would be without the test top < bottom.
setScrollRegion_unchecked(s, parameters) ==
    LET height == s.m_terminalSize.height
        top == Max(1, IF parameters = << >> THEN 1 ELSE parameters[1]) - 1
        bottom == Min(height, IF Len(parameters) < 2 THEN height ELSE parameters[2]) - 1
    IN  setCursorPositionInternal(
            [s EXCEPT !.m_scrollRegionTop = top, !.m_scrollRegionBottom = bottom],
            0, top)

\* DECSTBM (r).
setScrollRegion(s, parameters) ==
    LET height == s.m_terminalSize.height
        top1 == IF parameters = << >> THEN 1 ELSE parameters[1]
        bottom1 == IF Len(parameters) < 2 THEN height ELSE parameters[2]
        top == Max(1, top1) - 1
        bottom == Min(height, bottom1) - 1
    IN  IF top < bottom
        THEN setCursorPositionInternal(
                 [s EXCEPT !.m_scrollRegionTop = top, !.m_scrollRegionBottom = bottom],
                 0, top)
        ELSE s

\* One mode of a set (h) or reset (l) sequence.
applyMode(s, mode, set, isPrivateMode) ==
    IF isPrivateMode
    THEN CASE mode = 1 -> [s EXCEPT !.m_applicationCursorKeys = set]
           [] mode = 25 -> [s EXCEPT !.m_cursorVisible = set]
           [] mode \in {47, 1047} ->
                IF set # s.m_alternateScreenActive
                THEN setCursorPositionInternal(
                         [s EXCEPT !.m_alternateScreenActive = set], 0, 0)
                ELSE s
           [] mode = 1048 -> IF set THEN saveCursor(s) ELSE restoreCursor(s)
           [] mode = 1049 ->
                IF set
                THEN setCursorPositionInternal(
                         [saveCursor(s) EXCEPT !.m_alternateScreenActive = TRUE], 0, 0)
                ELSE restoreCursor([s EXCEPT !.m_alternateScreenActive = FALSE])
           [] mode = 2004 -> [s EXCEPT !.m_bracketedPasteMode = set]
           [] OTHER -> s
    ELSE CASE mode = 20 -> [s EXCEPT !.m_newLineMode = set]
           [] OTHER -> s

RECURSIVE applyModes(_, _, _, _)
applyModes(s, modeParams, set, isPrivateMode) ==
    IF modeParams = << >> THEN s
    ELSE applyModes(applyMode(s, Head(modeParams), set, isPrivateMode),
                    Tail(modeParams), set, isPrivateMode)

setResetMode(s, sequence, finalBytePos) ==
    LET set == sequence[finalBytePos + 1] = Ascii.h
        isPrivateMode == Len(sequence) > 2 /\ sequence[3] = Ascii.QM
        modeOffset == IF isPrivateMode THEN 3 ELSE 2
        modeParams == parseParameters(sequence, modeOffset, finalBytePos - modeOffset)
    IN  applyModes(s, modeParams, set, isPrivateMode)

processCSI(s, sequence) ==
    LET x == s.m_cursorPosition.x
        y == s.m_cursorPosition.y
        AtLeastOne(v) == IF v < 1 THEN 1 ELSE v
        Dispatch(finalBytePos, finalByte, parameters, n) ==
            CASE finalByte = Ascii.A -> setCursorPositionInternal(s, x, y - n)
              [] finalByte = Ascii.B -> setCursorPositionInternal(s, x, y + n)
              [] finalByte = Ascii.C -> setCursorPositionInternal(s, x + n, y)
              [] finalByte = Ascii.D -> setCursorPositionInternal(s, x - n, y)
              [] finalByte = Ascii.E -> setCursorPositionInternal(s, 0, y + n)
              [] finalByte = Ascii.F -> setCursorPositionInternal(s, 0, y - n)
              [] finalByte = Ascii.G -> setCursorPositionInternal(s, n - 1, y)
              [] finalByte \in {Ascii.H, Ascii.f} ->
                   setCursorPositionInternal(
                       s,
                       AtLeastOne(IF Len(parameters) < 2 THEN 1 ELSE parameters[2]) - 1,
                       AtLeastOne(IF parameters = << >> THEN 1 ELSE parameters[1]) - 1)
              [] finalByte = Ascii.J ->
                   eraseDisplay(s, IF parameters = << >> THEN 0 ELSE parameters[1])
              [] finalByte = Ascii.K ->
                   eraseLine(s, IF parameters = << >> THEN 0 ELSE parameters[1])
              [] finalByte = Ascii.m -> processSGR(s, parameters)
              [] finalByte = Ascii.r -> setScrollRegion(s, parameters)
              [] finalByte = Ascii.s -> saveCursor(s)
              [] finalByte = Ascii.u -> restoreCursor(s)
              [] finalByte \in {Ascii.h, Ascii.l} ->
                   setResetMode(s, sequence, finalBytePos)
              [] OTHER -> s
        Parsed(finalBytePos, parameters) ==
            [Dispatch(finalBytePos, sequence[finalBytePos + 1], parameters,
                      moveDistance(parameters))
             EXCEPT !.ret = finalBytePos + 1]
        Found(finalBytePos) ==
            IF finalBytePos >= Len(sequence) THEN [s EXCEPT !.ret = 0]
            ELSE Parsed(finalBytePos, parseParameters(sequence, 2, finalBytePos - 2))
    IN  Found(finalBytePosOf(sequence))

(***************************************************************************)
(* OSC.                                                                    *)
(***************************************************************************)
\* Whether the scan of processOSC stops at 0-based position i.
oscStopsAt(sequence, i) ==
    \/ sequence[i + 1] = Ascii.BEL
    \/ /\ i + 1 < Len(sequence)
       /\ sequence[i + 1] = Ascii.ESC
       /\ sequence[i + 2] = Ascii.BSL

\* The value of endPos after the scan: the position of BEL, or of the
\* backslash of ESC \, or the length of the sequence when neither is found.
oscEndPos(sequence) ==
    IF \E i \in 2..(Len(sequence) - 1) : oscStopsAt(sequence, i)
    THEN LET i == CHOOSE k \in 2..(Len(sequence) - 1) :
                      /\ oscStopsAt(sequence, k)
                      /\ \A j \in 2..(k - 1) : ~oscStopsAt(sequence, j)
         IN  IF sequence[i + 1] = Ascii.BEL THEN i ELSE i + 1
    ELSE Max(Len(sequence), 2)

processOSC(s, sequence) ==
    LET Handle(endPos, cmdNum, param) ==
            [(CASE cmdNum \in {0, 2} ->
                     Emit([s EXCEPT !.m_terminalTitle = param],
                          << "titleChanged", param >>)
                [] cmdNum = 7 ->
                     Emit([s EXCEPT !.m_workingDirectory = param],
                          << "workingDirectoryChanged", param >>)
                [] OTHER -> s)
             EXCEPT !.ret = endPos + 1]
        Numbered(endPos, paramString, semicolonPos, cmdNum) ==
            IF semicolonPos < 0 \/ ~cmdNum.ok THEN [s EXCEPT !.ret = endPos + 1]
            ELSE Handle(endPos, cmdNum.value,
                        fromUtf8(Mid(paramString, semicolonPos + 1, -1)))
        Separated(endPos, paramString, semicolonPos) ==
            Numbered(endPos, paramString, semicolonPos,
                     ToInt(Mid(paramString, 0, semicolonPos)))
        Scanned(endPos, paramString) ==
            IF endPos >= Len(sequence) THEN [s EXCEPT !.ret = 0]
            ELSE Separated(endPos, paramString, IndexOf(paramString, Ascii.SEMI))
        Ended(endPos) == Scanned(endPos, Mid(sequence, 2, endPos - 2))
    IN  Ended(oscEndPos(sequence))

(***************************************************************************)
(* The escape dispatcher and the byte loop.                                *)
(***************************************************************************)
processEscapeSequence(s, sequence) ==
    IF sequence = << >> THEN [s EXCEPT !.ret = 0]
    ELSE IF Len(sequence) >= 2 /\ sequence[1] = Ascii.ESC
    THEN LET second == sequence[2]
             x == s.m_cursorPosition.x
             y == s.m_cursorPosition.y
         IN  CASE second = Ascii.LBR -> processCSI(s, sequence)
               [] second = Ascii.RBR -> processOSC(s, sequence)
               [] second = Ascii.D ->
                    [setCursorPositionInternal(s, x, y + 1) EXCEPT !.ret = 2]
               [] second = Ascii.M ->
                    [setCursorPositionInternal(s, x, y - 1) EXCEPT !.ret = 2]
               [] second = Ascii.E ->
                    [setCursorPositionInternal(s, 0, y + 1) EXCEPT !.ret = 2]
               [] second = Ascii.c ->
                    [setCursorPositionInternal(
                         [clear(s) EXCEPT !.m_currentFormat = TerminalCharFormat], 0, 0)
                     EXCEPT !.ret = 2]
               [] second = Ascii.D7 -> [saveCursor(s) EXCEPT !.ret = 2]
               [] second = Ascii.D8 -> [restoreCursor(s) EXCEPT !.ret = 2]
               [] OTHER -> [s EXCEPT !.ret = 2]
    ELSE [s EXCEPT !.ret = 1]

\* The line feed of processOutputData.
lineFeed(s, u) ==
    LET x == s.m_cursorPosition.x
        y == s.m_cursorPosition.y
        moved == IF s.m_newLineMode THEN setCursorPositionInternal(s, 0, y + 1)
                 ELSE setCursorPositionInternal(s, x, y + 1)
    IN  IF moved.m_cursorPosition.y > moved.m_scrollRegionBottom
        THEN setCursorPositionInternal(scrollScreen(moved, 1, u),
                                       moved.m_cursorPosition.x,
                                       moved.m_scrollRegionBottom)
        ELSE moved

\* A byte received while m_parsingEscapeSequence is set.
collectEscapeByte(s, ch) ==
    LET buffered == [s EXCEPT !.m_escapeBuffer = Append(@, ch)]
    IN  IF isEscapeSequenceFinal(ch)
        THEN [processEscapeSequence(buffered, buffered.m_escapeBuffer)
                 EXCEPT !.m_escapeBuffer = << >>,
                        !.m_parsingEscapeSequence = FALSE]
        ELSE buffered

\* One iteration of the loop of processOutputData.
processByte(s, ch, u) ==
    IF s.m_parsingEscapeSequence THEN collectEscapeByte(s, ch)
    ELSE CASE ch = Ascii.ESC ->
                [s EXCEPT !.m_escapeBuffer = << ch >>,
                          !.m_parsingEscapeSequence = TRUE]
           [] ch = Ascii.BS ->
                IF s.m_cursorPosition.x > 0
                THEN setCursorPositionInternal(s, s.m_cursorPosition.x - 1,
                                               s.m_cursorPosition.y)
                ELSE s
           [] ch = Ascii.TAB ->
                LET next == ((s.m_cursorPosition.x + 8) \div 8) * 8
                    newX == IF next >= s.m_terminalSize.width
                            THEN s.m_terminalSize.width - 1 ELSE next
                IN  setCursorPositionInternal(s, newX, s.m_cursorPosition.y)
           [] ch = Ascii.CR ->
                setCursorPositionInternal(s, 0, s.m_cursorPosition.y)
           [] ch = Ascii.LF -> lineFeed(s, u)
           [] ch = Ascii.BEL -> Emit(s, << "bellTriggered" >>)
           [] ch = Ascii.FF -> clear(s)
           [] OTHER -> putCharacter(s, ch, u)

RECURSIVE processBytes(_, _, _)
processBytes(s, data, u) ==
    IF data = << >> THEN s
    ELSE processBytes(processByte(s, Head(data), u), Tail(data), u)

\* processOutputData with the parser state local to one call.
processOutputData_forgetsPartial(s, data, u) ==
    Emit(processBytes([s EXCEPT !.m_escapeBuffer = << >>,
                                !.m_parsingEscapeSequence = FALSE], data, u),
         << "redrawRequired" >>)

processOutputData(s, data, u) ==
    Emit(processBytes(s, data, u), << "redrawRequired" >>)

(***************************************************************************)
(* The cursor and colour accessors.                                        *)
(***************************************************************************)
\* The lambda connected to m_cursorBlinkTimer's timeout.
cursorBlinkTimeout(s) ==
    Emit([s EXCEPT !.m_cursorVisible = ~s.m_cursorVisible], << "redrawRequired" >>)

isCursorVisible(s) == s.m_cursorVisible

setCursorVisible(s, visible) ==
    Emit([s EXCEPT !.m_cursorVisible = visible], << "redrawRequired" >>)

\* setDefaultForegroundColor and setDefaultBackgroundColor are declared in
\* terminalemulator.h and defined nowhere: each stores its colour as the
\* session's default.
setDefaultForegroundColor(s, color) == [s EXCEPT !.m_defaultForeground = color]

setDefaultBackgroundColor(s, color) == [s EXCEPT !.m_defaultBackground = color]

(***************************************************************************)
(* The cell accessors.                                                     *)
(***************************************************************************)
\* QChar(): the null character.
NullChar == 0

\* The bounds test shared by characterAt and formatAt.
outsideScreen(s, x, y) ==
    y < 0 \/ y >= Len(activeScreen(s)) \/ x < 0 \/ x >= s.m_terminalSize.width

characterAt(s, x, y) ==
    IF outsideScreen(s, x, y) THEN NullChar
    ELSE LET line == activeScreen(s)[y + 1]
         IN  IF x >= Len(line) THEN Ascii.SP ELSE line[x + 1].character

formatAt(s, x, y) ==
    IF outsideScreen(s, x, y) THEN TerminalCharFormat
    ELSE LET line == activeScreen(s)[y + 1]
         IN  IF x >= Len(line) THEN s.m_currentFormat ELSE line[x + 1].format

(***************************************************************************)
(* initialize and resize.                                                  *)
(***************************************************************************)
\* initialize without the test of m_initialized.
initialize_unguarded(s, rows, cols) ==
    LET Blank(sized) == [i \in 1..rows |-> createBlankLine(sized)]
        Built(sized) == [sized EXCEPT !.m_screen = Blank(sized),
                                      !.m_alternateScreen = Blank(sized),
                                      !.m_scrollRegionTop = 0,
                                      !.m_scrollRegionBottom = rows - 1,
                                      !.m_cursorPosition = QPoint(0, 0),
                                      !.m_initialized = TRUE,
                                      !.ret = 1]
    IN  Built([s EXCEPT !.m_terminalSize = QSize(cols, rows)])

initialize(s, rows, cols) ==
    IF s.m_initialized THEN [s EXCEPT !.ret = 1]
    ELSE LET Blank(sized) == [i \in 1..rows |-> createBlankLine(sized)]
             Built(sized) == [sized EXCEPT !.m_screen = Blank(sized),
                                           !.m_alternateScreen = Blank(sized),
                                           !.m_scrollRegionTop = 0,
                                           !.m_scrollRegionBottom = rows - 1,
                                           !.m_cursorPosition = QPoint(0, 0),
                                           !.m_initialized = TRUE,
                                           !.ret = 1]
         IN  Built([s EXCEPT !.m_terminalSize = QSize(cols, rows)])

\* A line of the old buffer cut or padded to cols cells (resize, "Copy
\* existing content" and "Fill the rest with spaces").
resizeLine(line, cols, fmt) ==
    [j \in 1..cols |-> IF j <= Len(line) THEN line[j] ELSE TerminalCell(Ascii.SP, fmt)]

\* A screen buffer rebuilt by resize for rows x cols; s already has the new
\* m_terminalSize.
resizeBuffer(s, buffer, rows, cols) ==
    [i \in 1..rows |->
        IF i <= Len(buffer) THEN resizeLine(buffer[i], cols, s.m_currentFormat)
        ELSE createBlankLine(s)]

resize(s, rows, cols) ==
    LET sized == [s EXCEPT !.m_terminalSize = QSize(cols, rows)]
        primary == [sized EXCEPT !.m_screen = resizeBuffer(sized, s.m_screen, rows, cols)]
        both == IF s.m_alternateScreenActive
                THEN [primary EXCEPT !.m_alternateScreen =
                         resizeBuffer(sized, s.m_alternateScreen, rows, cols)]
                ELSE primary
        clamped == setCursorPositionInternal(both, s.m_cursorPosition.x,
                                             s.m_cursorPosition.y)
        adjusted ==
            [clamped EXCEPT !.m_scrollRegionTop = Min(s.m_scrollRegionTop, rows - 1),
                            !.m_scrollRegionBottom = Min(s.m_scrollRegionBottom, rows - 1)]
        told == IF s.m_ptyFd >= 0
                THEN PtyCall(adjusted, << "ioctl", s.m_ptyFd, rows, cols >>)
                ELSE adjusted
    IN  Emit(Emit(told, << "sizeChanged", QSize(cols, rows) >>),
             << "redrawRequired" >>)

(***************************************************************************)
(* The shell session: startShell, readFromShell, processInput,             *)
(* processKeyPress, executeCommand.                                        *)
(***************************************************************************)
\* The macros ESC and CSI.
EscMacro == << Ascii.ESC >>
CsiMacro == << Ascii.ESC, Ascii.LBR >>

\* What the operating system answers to startShell: openpty or fork fails,
\* or the shell runs on descriptor master with process id pid.
StartOutcomes ==
    { [openpty |-> FALSE, fork |-> FALSE, master |-> 0 - 1, slave |-> 0 - 1,
       pid |-> 0 - 1],
      [openpty |-> TRUE, fork |-> FALSE, master |-> 3, slave |-> 4, pid |-> 0 - 1],
      [openpty |-> TRUE, fork |-> TRUE, master |-> 3, slave |-> 4, pid |-> 100] }

\* startShell that returns after a failed fork without closing the PTY.
startShell_leaksDescriptors(s, workingDir, sys) ==
    IF s.m_shellPid > 0 THEN [s EXCEPT !.ret = 1]
    ELSE LET Sized(opened) ==
                 [resize(PtyCall(opened, << "fcntl", sys.master >>),
                         opened.m_terminalSize.height, opened.m_terminalSize.width)
                     EXCEPT !.m_busy = TRUE, !.ret = 1]
             Stored(stored) ==
                 IF ~sys.openpty \/ ~sys.fork THEN [stored EXCEPT !.ret = 0]
                 ELSE Sized([PtyCall(stored, << "close", sys.slave >>)
                                EXCEPT !.m_ptyFd = sys.master,
                                       !.m_shellPid = sys.pid,
                                       !.m_ptyNotifier = "enabled"])
         IN  Stored([s EXCEPT !.m_workingDirectory = workingDir])

\* startShell(QString(), workingDir) in the parent process; sys is the
\* operating system's answer.
startShell(s, workingDir, sys) ==
    IF s.m_shellPid > 0 THEN [s EXCEPT !.ret = 1]
    ELSE LET Sized(opened) ==
                 [resize(PtyCall(opened, << "fcntl", sys.master >>),
                         opened.m_terminalSize.height, opened.m_terminalSize.width)
                     EXCEPT !.m_busy = TRUE, !.ret = 1]
             Stored(stored) ==
                 IF ~sys.openpty THEN [stored EXCEPT !.ret = 0]
                 ELSE IF ~sys.fork
                 THEN [PtyCall(PtyCall(stored, << "close", sys.master >>),
                               << "close", sys.slave >>)
                          EXCEPT !.ret = 0]
                 ELSE Sized([PtyCall(stored, << "close", sys.slave >>)
                                EXCEPT !.m_ptyFd = sys.master,
                                       !.m_shellPid = sys.pid,
                                       !.m_ptyNotifier = "enabled"])
         IN  Stored([s EXCEPT !.m_workingDirectory = workingDir])

\* What ::read answers: n > 0 bytes, 0 at end of file, or -1 with an errno.
ReadResult(n, data, errno) == [n |-> n, data |-> data, errno |-> errno]

WouldBlock == { "EAGAIN", "EWOULDBLOCK" }

\* The end-of-file branch of readFromShell.
\* The end of a session that only marks the manager idle.
shellExited_keepsDescriptor(s) ==
    Emit([s EXCEPT !.m_busy = FALSE, !.m_shellPid = 0],
         << "shellFinished", s.m_lastExitCode >>)

shellExited(s) ==
    LET stopped == [s EXCEPT !.m_busy = FALSE, !.m_shellPid = 0]
        quiet == IF stopped.m_ptyNotifier # "nullptr"
                 THEN [stopped EXCEPT !.m_ptyNotifier = "disabled"]
                 ELSE stopped
        closed == IF quiet.m_ptyFd >= 0
                  THEN [PtyCall(quiet, << "close", quiet.m_ptyFd >>)
                           EXCEPT !.m_ptyFd = 0 - 1]
                  ELSE quiet
    IN  Emit(closed, << "shellFinished", closed.m_lastExitCode >>)

readFromShell(s, r, u) ==
    IF s.m_ptyFd < 0 THEN s
    ELSE LET asked == PtyCall(s, << "read", s.m_ptyFd >>)
         IN  IF r.n > 0
             THEN LET Kept(shown) ==
                          IF shown.m_commandExecuting
                          THEN [shown EXCEPT !.m_currentOutput = @ \o fromUtf8(r.data)]
                          ELSE shown
                  IN  Emit(Kept(processOutputData(asked, r.data, u)),
                           << "outputAvailable", fromUtf8(r.data) >>)
             ELSE IF r.n < 0 /\ r.errno \notin WouldBlock THEN asked
             ELSE IF r.n = 0 THEN shellExited(asked)
             ELSE asked

\* processInput without the bracketed-paste branch.
processInput_neverWraps(s, text) ==
    IF s.m_ptyFd < 0 \/ ~s.m_busy THEN s
    ELSE PtyCall(s, << "write", s.m_ptyFd, toUtf8(text) >>)

processInput(s, text) ==
    IF s.m_ptyFd < 0 \/ ~s.m_busy THEN s
    ELSE LET data == toUtf8(text)
         IN  IF s.m_bracketedPasteMode /\ Len(data) > 0
             THEN PtyCall(s, << "write", s.m_ptyFd,
                                CsiMacro \o Enc(<< "D2", "D0", "D0", "TILDE" >>) \o data
                                   \o CsiMacro \o Enc(<< "D2", "D0", "D1", "TILDE" >>) >>)
             ELSE PtyCall(s, << "write", s.m_ptyFd, data >>)

\* The values of the Qt::Key enumerators processKeyPress tests.
QtKey ==
    [Key_Escape |-> 16777216, Key_Tab |-> 16777217, Key_Backspace |-> 16777219,
     Key_Return |-> 16777220, Key_Enter |-> 16777221, Key_Insert |-> 16777222,
     Key_Delete |-> 16777223, Key_Home |-> 16777232, Key_End |-> 16777233,
     Key_Left |-> 16777234, Key_Up |-> 16777235, Key_Right |-> 16777236,
     Key_Down |-> 16777237, Key_PageUp |-> 16777238, Key_PageDown |-> 16777239,
     Key_F1 |-> 16777264, Key_F2 |-> 16777265, Key_F3 |-> 16777266,
     Key_F4 |-> 16777267, Key_F5 |-> 16777268, Key_F6 |-> 16777269,
     Key_F7 |-> 16777270, Key_F8 |-> 16777271, Key_F9 |-> 16777272,
     Key_F10 |-> 16777273, Key_F11 |-> 16777274, Key_F12 |-> 16777275,
     Key_A |-> 65, Key_Z |-> 90, Key_BracketLeft |-> 91, Key_BracketRight |-> 93]

KeyboardModifiers(alt, ctrl, shift) == [alt |-> alt, ctrl |-> ctrl, shift |-> shift]

\* The bytes processKeyPress sends for a key; << >> when it sends nothing.
keyBytes(s, key, modifiers, text) ==
    LET csi(tail) == CsiMacro \o Enc(tail)
        esc(tail) == EscMacro \o Enc(tail)
        cursorKey(letter) ==
            IF s.m_applicationCursorKeys THEN csi(<< letter >>)
            ELSE esc(<< "LBR", letter >>)
    IN  CASE key \in { QtKey.Key_Return, QtKey.Key_Enter } -> << Ascii.CR >>
          [] key = QtKey.Key_Tab -> << Ascii.TAB >>
          [] key = QtKey.Key_Backspace -> << Ascii.DEL >>
          [] key = QtKey.Key_Escape -> EscMacro
          [] key = QtKey.Key_Up -> cursorKey("A")
          [] key = QtKey.Key_Down -> cursorKey("B")
          [] key = QtKey.Key_Right -> cursorKey("C")
          [] key = QtKey.Key_Left -> cursorKey("D")
          [] key = QtKey.Key_Home -> csi(<< "H" >>)
          [] key = QtKey.Key_End -> csi(<< "F" >>)
          [] key = QtKey.Key_Insert -> csi(<< "D2", "TILDE" >>)
          [] key = QtKey.Key_Delete -> csi(<< "D3", "TILDE" >>)
          [] key = QtKey.Key_PageUp -> csi(<< "D5", "TILDE" >>)
          [] key = QtKey.Key_PageDown -> csi(<< "D6", "TILDE" >>)
          [] key = QtKey.Key_F1 -> esc(<< "O", "P" >>)
          [] key = QtKey.Key_F2 -> esc(<< "O", "Q" >>)
          [] key = QtKey.Key_F3 -> esc(<< "O", "R" >>)
          [] key = QtKey.Key_F4 -> esc(<< "O", "S" >>)
          [] key = QtKey.Key_F5 -> csi(<< "D1", "D5", "TILDE" >>)
          [] key = QtKey.Key_F6 -> csi(<< "D1", "D7", "TILDE" >>)
          [] key = QtKey.Key_F7 -> csi(<< "D1", "D8", "TILDE" >>)
          [] key = QtKey.Key_F8 -> csi(<< "D1", "D9", "TILDE" >>)
          [] key = QtKey.Key_F9 -> csi(<< "D2", "D0", "TILDE" >>)
          [] key = QtKey.Key_F10 -> csi(<< "D2", "D1", "TILDE" >>)
          [] key = QtKey.Key_F11 -> csi(<< "D2", "D3", "TILDE" >>)
          [] key = QtKey.Key_F12 -> csi(<< "D2", "D4", "TILDE" >>)
          [] OTHER ->
               IF text = << >> THEN << >>
               ELSE IF modifiers.ctrl /\ key >= QtKey.Key_A /\ key <= QtKey.Key_Z
               THEN << key - QtKey.Key_A + 1 >>
               ELSE IF modifiers.ctrl /\ key >= QtKey.Key_BracketLeft
                          /\ key <= QtKey.Key_BracketRight
               THEN << key - QtKey.Key_BracketLeft + 27 >>
               ELSE IF modifiers.alt THEN EscMacro \o toUtf8(text)
               ELSE toUtf8(text)

processKeyPress(s, key, modifiers, text) ==
    IF s.m_ptyFd < 0 \/ ~s.m_busy THEN s
    ELSE LET data == keyBytes(s, key, modifiers, text)
         IN  IF data # << >> THEN PtyCall(s, << "write", s.m_ptyFd, data >>)
             ELSE s

executeCommand(s, command, addNewline) ==
    IF s.m_ptyFd < 0 \/ ~s.m_busy THEN s
    ELSE LET sent == PtyCall(s, << "write", s.m_ptyFd, toUtf8(command) >>)
             ended == IF addNewline
                      THEN PtyCall(sent, << "write", s.m_ptyFd, << Ascii.CR >> >>)
                      ELSE sent
             started == [ended EXCEPT !.m_currentCommand = command,
                                      !.m_commandExecuting = TRUE]
         IN  IF started.m_blockModeEnabled
             THEN Emit([started EXCEPT !.m_currentBlockId = @ + 1],
                       << "commandDetected", command >>)
             ELSE started

(***************************************************************************)
(* The records kept beside the emulator: the blocks of BlockModel          *)
(* (src/src/blockmodel.cpp) and the command histories of                   *)
(* QTermWidgetEmulator and CommandInput.                                   *)
(***************************************************************************)
CommandBlock(blockId, cmd) ==
    [id |-> blockId, command |-> cmd, exitCode |-> 0, state |-> "Pending"]

BlockModelConstructed ==
    [m_blocks |-> << >>, m_currentBlockId |-> 0 - 1, m_nextBlockId |-> 1,
     m_isCommandExecuting |-> FALSE]

\* createBlock(command): the id comes from generateBlockId, m_nextBlockId++.
createBlock(b, command) ==
    LET Created(blockId) ==
            [b EXCEPT !.m_nextBlockId = @ + 1,
                      !.m_blocks = Append(@, CommandBlock(blockId, command)),
                      !.m_currentBlockId = IF @ < 0 THEN blockId ELSE @]
    IN  Created(b.m_nextBlockId)

\* setBlockState(id, state), on the first block findBlockIndex finds.
setBlockState(b, id, state) ==
    LET Found(index) ==
            IF index = 0 THEN b ELSE [b EXCEPT !.m_blocks[index].state = state]
    IN  Found(IF \E i \in DOMAIN b.m_blocks : b.m_blocks[i].id = id
              THEN CHOOSE i \in DOMAIN b.m_blocks :
                       /\ b.m_blocks[i].id = id
                       /\ \A j \in 1..(i - 1) : b.m_blocks[j].id # id
              ELSE 0)

\* BlockModel::clear()
BlockModel_clear(b) ==
    IF b.m_blocks = << >> THEN b
    ELSE [b EXCEPT !.m_blocks = << >>, !.m_currentBlockId = 0 - 1, !.m_nextBlockId = 1]

\* onCommandDetected(command), the slot connected to commandDetected, which
\* executeCommand emits.
onCommandDetected(b, command) ==
    IF TrimRight(TrimLeft(command)) = << >> THEN b
    ELSE LET Started(created) ==
                 [setBlockState(created, b.m_nextBlockId, "Executing")
                     EXCEPT !.m_isCommandExecuting = TRUE]
         IN  Started(createBlock(b, command))

\* setBlockExitCode(id, exitCode), on the first block findBlockIndex finds.
setBlockExitCode(b, id, exitCode) ==
    LET Found(index) ==
            IF index = 0 THEN b ELSE [b EXCEPT !.m_blocks[index].exitCode = exitCode]
    IN  Found(IF \E i \in DOMAIN b.m_blocks : b.m_blocks[i].id = id
              THEN CHOOSE i \in DOMAIN b.m_blocks :
                       /\ b.m_blocks[i].id = id
                       /\ \A j \in 1..(i - 1) : b.m_blocks[j].id # id
              ELSE 0)

RECURSIVE Delivered(_, _)
\* The slots of the BlockModel that connectToTerminal connects to the
\* emulator, run for each of the signals in the order emitted.
Delivered(b, signals) ==
    IF signals = << >> THEN b
    ELSE Delivered(IF Head(signals)[1] = "commandDetected"
                   THEN onCommandDetected(b, Head(signals)[2])
                   ELSE b,
                   Tail(signals))

\* BlockModel::executeCommand(command) with m_terminal the emulator s: the
\* block model and the emulator it leaves, and the block id it returns.
BlockModel_executeCommand(b, s, command) ==
    LET started == setBlockState(createBlock(b, command), b.m_nextBlockId, "Executing")
        ran == executeCommand(s, command, TRUE)
    IN  [blockModel |-> Delivered(started, SubSeq(ran.emitted, Len(s.emitted) + 1,
                                                  Len(ran.emitted))),
         terminal |-> ran,
         blockId |-> b.m_nextBlockId]

\* onCommandExecuted(command, output, exitCode), the slot connected to
\* commandExecuted.
onCommandExecuted(b, command, exitCode) ==
    LET Matching == { i \in DOMAIN b.m_blocks :
                         /\ b.m_blocks[i].state = "Executing"
                         /\ b.m_blocks[i].command = command }
        Updated(having, blockId) ==
            [setBlockState(setBlockExitCode(having, blockId, exitCode), blockId,
                           IF exitCode = 0 THEN "Completed" ELSE "Failed")
                EXCEPT !.m_isCommandExecuting = FALSE]
    IN  IF Matching # {}
        THEN Updated(b, b.m_blocks[CHOOSE i \in Matching :
                                      \A j \in Matching : j <= i].id)
        ELSE Updated(createBlock(b, command), b.m_nextBlockId)

\* WarpKateView::executeCommand(command), m_blockModel being b and
\* m_terminalEmulator the emulator s that b is connected to.
WarpKateView_executeCommand(b, s, command) ==
    IF command = << >> THEN [blockModel |-> b, terminal |-> s]
    ELSE LET Again(first, ran) ==
                 [blockModel |-> Delivered(first.blockModel,
                                           SubSeq(ran.emitted,
                                                  Len(first.terminal.emitted) + 1,
                                                  Len(ran.emitted))),
                  terminal |-> ran]
             Then(first) == Again(first, executeCommand(first.terminal, command, TRUE))
         IN  Then(BlockModel_executeCommand(b, s, command))

HistoryConstructed == [QTermWidgetEmulator |-> << >>, CommandInput |-> << >>]

\* QStringList::contains
Contains(list, str) == \E i \in DOMAIN list : list[i] = str

\* What detectCommand does to m_commandHistory once it has found the command
\* m_currentCommand completed.
detectCommand(history, currentCommand) ==
    IF ~Contains(history, currentCommand) /\ currentCommand # << >>
    THEN Append(history, currentCommand)
    ELSE history

\* What submitInput does to m_commandHistory in command mode.
submitInput(history, text) ==
    LET Submitted(input) ==
            IF input = << >> THEN history
            ELSE IF history = << >> \/ history[Len(history)] # input
            THEN Append(history, input)
            ELSE history
    IN  Submitted(TrimRight(TrimLeft(text)))

(***************************************************************************)
(* The state machine.                                                      *)
(***************************************************************************)
Assigns(s) ==
    /\ m_initialized' = s.m_initialized
    /\ m_screen' = s.m_screen
    /\ m_alternateScreen' = s.m_alternateScreen
    /\ m_currentFormat' = s.m_currentFormat
    /\ m_cursorPosition' = s.m_cursorPosition
    /\ m_terminalSize' = s.m_terminalSize
    /\ m_cursorVisible' = s.m_cursorVisible
    /\ m_alternateScreenActive' = s.m_alternateScreenActive
    /\ m_applicationCursorKeys' = s.m_applicationCursorKeys
    /\ m_bracketedPasteMode' = s.m_bracketedPasteMode
    /\ m_scrollRegionTop' = s.m_scrollRegionTop
    /\ m_scrollRegionBottom' = s.m_scrollRegionBottom
    /\ m_savedCursorPosition' = s.m_savedCursorPosition
    /\ m_savedFormat' = s.m_savedFormat
    /\ m_defaultForeground' = s.m_defaultForeground
    /\ m_defaultBackground' = s.m_defaultBackground
    /\ m_escapeBuffer' = s.m_escapeBuffer
    /\ m_parsingEscapeSequence' = s.m_parsingEscapeSequence
    /\ m_newLineMode' = s.m_newLineMode
    /\ m_workingDirectory' = s.m_workingDirectory
    /\ m_terminalTitle' = s.m_terminalTitle
    /\ m_ptyFd' = s.m_ptyFd
    /\ m_ptyNotifier' = s.m_ptyNotifier
    /\ m_shellPid' = s.m_shellPid
    /\ m_busy' = s.m_busy
    /\ m_lastExitCode' = s.m_lastExitCode
    /\ m_commandExecuting' = s.m_commandExecuting
    /\ m_currentCommand' = s.m_currentCommand
    /\ m_currentOutput' = s.m_currentOutput
    /\ m_blockModeEnabled' = s.m_blockModeEnabled
    /\ m_currentBlockId' = s.m_currentBlockId
    /\ ptyCalls' = s.ptyCalls
    /\ emitted' = s.emitted
    /\ ub' = s.ub
    /\ ret' = s.ret

Becomes(s) ==
    /\ UNCHANGED << blockModel, m_commandHistory, issued, preRecords >>
    /\ Assigns(s)

\* The state an operation starts from: nothing emitted and no system call
\* made yet.
Entry == [Emu EXCEPT !.emitted = << >>, !.ptyCalls = << >>]

\* An operation named name with arguments args that leaves the emulator in s.
Done(name, args, s) ==
    /\ Becomes(s)
    /\ op' = [name |-> name, args |-> args]
    /\ pre' = Emu
    /\ op2' = op
    /\ pre2' = pre
    /\ steps' = steps + 1

NoOp == [name |-> "none", args |-> << >>]

Init ==
    /\ m_initialized = Constructed.m_initialized
    /\ m_screen = Constructed.m_screen
    /\ m_alternateScreen = Constructed.m_alternateScreen
    /\ m_currentFormat = Constructed.m_currentFormat
    /\ m_cursorPosition = Constructed.m_cursorPosition
    /\ m_terminalSize = Constructed.m_terminalSize
    /\ m_cursorVisible = Constructed.m_cursorVisible
    /\ m_alternateScreenActive = Constructed.m_alternateScreenActive
    /\ m_applicationCursorKeys = Constructed.m_applicationCursorKeys
    /\ m_bracketedPasteMode = Constructed.m_bracketedPasteMode
    /\ m_scrollRegionTop = Constructed.m_scrollRegionTop
    /\ m_scrollRegionBottom = Constructed.m_scrollRegionBottom
    /\ m_savedCursorPosition = Constructed.m_savedCursorPosition
    /\ m_savedFormat = Constructed.m_savedFormat
    /\ m_defaultForeground = Constructed.m_defaultForeground
    /\ m_defaultBackground = Constructed.m_defaultBackground
    /\ m_escapeBuffer = Constructed.m_escapeBuffer
    /\ m_parsingEscapeSequence = Constructed.m_parsingEscapeSequence
    /\ m_newLineMode = Constructed.m_newLineMode
    /\ m_workingDirectory = Constructed.m_workingDirectory
    /\ m_terminalTitle = Constructed.m_terminalTitle
    /\ m_ptyFd = Constructed.m_ptyFd
    /\ m_ptyNotifier = Constructed.m_ptyNotifier
    /\ m_shellPid = Constructed.m_shellPid
    /\ m_busy = Constructed.m_busy
    /\ m_lastExitCode = Constructed.m_lastExitCode
    /\ m_commandExecuting = Constructed.m_commandExecuting
    /\ m_currentCommand = Constructed.m_currentCommand
    /\ m_currentOutput = Constructed.m_currentOutput
    /\ m_blockModeEnabled = Constructed.m_blockModeEnabled
    /\ m_currentBlockId = Constructed.m_currentBlockId
    /\ ptyCalls = Constructed.ptyCalls
    /\ emitted = Constructed.emitted
    /\ ub = Constructed.ub
    /\ ret = Constructed.ret
    /\ op = NoOp
    /\ pre = Constructed
    /\ op2 = NoOp
    /\ pre2 = Constructed
    /\ steps = 0
    /\ blockModel = BlockModelConstructed
    /\ m_commandHistory = HistoryConstructed
    /\ issued = << >>
    /\ preRecords = [blockModel |-> BlockModelConstructed,
                     m_commandHistory |-> HistoryConstructed]

\* The terminal sizes the host asks for: the corners of 1..MaxRows x 1..MaxCols.
Sizes == {1, MaxRows} \X {1, MaxCols}

\* initialize(rows, cols), called once by the host before anything else.
Initialize(sizes) ==
    /\ ~m_initialized
    /\ \E sz \in sizes :
          /\ Becomes(initialize(Entry, sz[1], sz[2]))
          /\ op' = [name |-> "initialize", args |-> sz]
          /\ pre' = Emu
          /\ UNCHANGED << op2, pre2, steps >>

\* initialize(rows, cols) called on an emulator that is initialized already.
InitializeAgain(sizes) ==
    /\ m_initialized
    /\ \E sz \in sizes : Done("initialize", sz, initialize(Entry, sz[1], sz[2]))

\* resize(rows, cols)
Resize(sizes) ==
    /\ m_initialized
    /\ \E sz \in sizes : Done("resize", sz, resize(Entry, sz[1], sz[2]))

\* processOutputData(data), data being the bytes of one read from the PTY.
ProcessOutputData(chunks) ==
    /\ m_initialized
    /\ \E data \in chunks, u \in UBOutcomes :
          Done("processOutputData", data, processOutputData(Entry, data, u))

\* processEscapeSequence called with one complete sequence.
ProcessEscapeSequence(sequences) ==
    /\ m_initialized
    /\ \E sequence \in sequences :
          Done("processEscapeSequence", sequence, processEscapeSequence(Entry, sequence))

\* putCharacter(ch)
PutCharacter(chars) ==
    /\ m_initialized
    /\ \E ch \in chars, u \in UBOutcomes :
          Done("putCharacter", ch, putCharacter(Entry, ch, u))

\* scrollScreen(lines)
ScrollScreen(amounts) ==
    /\ m_initialized
    /\ \E lines \in amounts, u \in UBOutcomes :
          Done("scrollScreen", lines, scrollScreen(Entry, lines, u))

\* startShell(QString(), workingDir)
StartShell(outcomes, dirs) ==
    /\ m_initialized
    /\ \E sys \in outcomes, workingDir \in dirs :
          Done("startShell", << workingDir, sys >>, startShell(Entry, workingDir, sys))

\* readFromShell(), with what ::read answers.
ReadFromShell(results) ==
    /\ m_initialized
    /\ \E r \in results, u \in UBOutcomes :
          Done("readFromShell", r, readFromShell(Entry, r, u))

\* processInput(text)
ProcessInput(texts) ==
    /\ m_initialized
    /\ \E text \in texts : Done("processInput", text, processInput(Entry, text))

\* processKeyPress(key, modifiers, text)
ProcessKeyPress(presses) ==
    /\ m_initialized
    /\ \E k \in presses :
          Done("processKeyPress", k, processKeyPress(Entry, k[1], k[2], k[3]))

\* executeCommand(command, addNewline)
ExecuteCommand(commands) ==
    /\ m_initialized
    /\ \E command \in commands, addNewline \in BOOLEAN :
          Done("executeCommand", << command, addNewline >>,
               executeCommand(Entry, command, addNewline))

\* A timeout of m_cursorBlinkTimer, which initialize starts.
CursorBlinkTimeout ==
    /\ m_initialized
    /\ Done("cursorBlinkTimeout", << >>, cursorBlinkTimeout(Entry))

\* setCursorVisible(visible)
SetCursorVisible ==
    /\ m_initialized
    /\ \E visible \in BOOLEAN :
          Done("setCursorVisible", visible, setCursorVisible(Entry, visible))

\* setDefaultForegroundColor(color)
SetDefaultForegroundColor(colors) ==
    \E color \in colors :
       Done("setDefaultForegroundColor", color, setDefaultForegroundColor(Entry, color))

\* setDefaultBackgroundColor(color)
SetDefaultBackgroundColor(colors) ==
    \E color \in colors :
       Done("setDefaultBackgroundColor", color, setDefaultBackgroundColor(Entry, color))

\* An operation on the emulator and the block model connected to it, which
\* leaves the emulator in s and the block model as b.
DoneWithBlocks(name, args, s, b) ==
    /\ Assigns(s)
    /\ blockModel' = b
    /\ preRecords' = [blockModel |-> blockModel, m_commandHistory |-> m_commandHistory]
    /\ issued' = issued \o [i \in 1..(Len(b.m_blocks) - Len(blockModel.m_blocks)) |->
                               b.m_blocks[Len(blockModel.m_blocks) + i].id]
    /\ op' = [name |-> name, args |-> args]
    /\ pre' = Emu
    /\ op2' = op
    /\ pre2' = pre
    /\ steps' = steps + 1
    /\ UNCHANGED m_commandHistory

\* BlockModel::executeCommand(command)
BlockModelExecuteCommand(commands) ==
    /\ m_initialized
    /\ \E command \in commands :
          LET Left(r) == DoneWithBlocks("BlockModel::executeCommand",
                                        << command, r.blockId >>, r.terminal, r.blockModel)
          IN  Left(BlockModel_executeCommand(blockModel, Entry, command))

\* The command-executed event arriving at the BlockModel.
OnCommandExecuted(commands, exitCodes) ==
    /\ m_initialized
    /\ \E command \in commands, exitCode \in exitCodes :
          DoneWithBlocks("onCommandExecuted", << command, exitCode >>, Entry,
                         onCommandExecuted(blockModel, command, exitCode))

\* WarpKateView::executeCommand(command)
WarpKateViewExecuteCommand(commands) ==
    /\ m_initialized
    /\ \E command \in commands :
          LET Left(r) == DoneWithBlocks("WarpKateView::executeCommand", command,
                                        r.terminal, r.blockModel)
          IN  Left(WarpKateView_executeCommand(blockModel, Entry, command))

(***************************************************************************)
(* Spec: the emulator as the host drives it, bytes read from the PTY and   *)
(* resize calls.                                                           *)
(***************************************************************************)
Example1 == Enc(<< "A", "ESC", "LBR", "D3", "D1", "m", "B", "ESC", "LBR", "D0", "m", "C" >>)
SgrRed == Enc(<< "ESC", "LBR", "D3", "D1", "m" >>)
Osc7 == Enc(<< "ESC", "RBR", "D7", "SEMI", "SLASH", "p", "BEL" >>)
Osc7Path == Enc(<< "SLASH", "p" >>)
Toggle1049 ==
    Enc(<< "ESC", "LBR", "QM", "D1", "D0", "D4", "D9", "h",
           "ESC", "LBR", "QM", "D1", "D0", "D4", "D9", "l" >>)
TextThenSave == Enc(<< "a", "b", "ESC", "D7", "x" >>)
Restore == Enc(<< "ESC", "D8", "x" >>)
Text == Enc(<< "a" >>)
TextLine == Enc(<< "a", "LF" >>)
LineFeed == Enc(<< "LF" >>)

\* n lines separated by CR LF, line i being the single letter LineLetter(i).
LineLetter(i) == Ascii.a + i - 1
RECURSIVE Lines(_)
Lines(n) ==
    IF n <= 1 THEN << LineLetter(1) >>
    ELSE Lines(n - 1) \o << Ascii.CR, Ascii.LF, LineLetter(n) >>

OneLineTooMany == Lines(MaxRows + 1)

Chunks ==
    { Example1, SgrRed, Osc7, Toggle1049, TextThenSave, Restore, Text, TextLine,
      LineFeed, OneLineTooMany }

Next ==
    \/ Initialize(Sizes)
    \/ steps < MaxSteps /\ Resize(Sizes)
    \/ steps < MaxSteps /\ ProcessOutputData(Chunks)

Spec == Init /\ [][Next]_vars

(***************************************************************************)
(* SpecSplit: the bytes of complete sequences delivered in pieces.         *)
(***************************************************************************)
TextSgrText == Enc(<< "a", "ESC", "LBR", "D0", "m", "b" >>)

SplitSequences == { SgrRed, Osc7, TextSgrText }

Pieces(data) ==
    UNION { { SubSeq(data, 1, k), SubSeq(data, k + 1, Len(data)) } : k \in 0..Len(data) }

Fragments == UNION { Pieces(data) : data \in SplitSequences }

NextSplit ==
    \/ Initialize(Sizes)
    \/ steps < MaxSplitSteps /\ ProcessOutputData(Fragments)

SpecSplit == Init /\ [][NextSplit]_vars

(***************************************************************************)
(* SpecFormat: SGR sequences dispatched by processEscapeSequence, character*)
(* writes and resize calls.                                                *)
(***************************************************************************)
Sgr(params) == Enc(<< "ESC", "LBR" >>) \o Enc(params) \o Enc(<< "m" >>)

Sgr0 == Sgr(<< "D0" >>)
SgrEmpty == Sgr(<< >>)

SgrSequences ==
    { Sgr0, SgrEmpty, SgrRed,
      Sgr(<< "D1", "SEMI", "D4" >>),
      Sgr(<< "D4", "D2" >>),
      Sgr(<< "D3", "D8", "SEMI", "D5", "SEMI", "D1", "D9", "D6" >>),
      Sgr(<< "D4", "D8", "SEMI", "D2", "SEMI", "D1", "SEMI", "D2", "SEMI", "D3" >>),
      Sgr(<< "D9", "D9" >>) }

NextFormat ==
    \/ Initialize(Sizes)
    \/ steps < MaxFormatSteps /\ Resize(Sizes)
    \/ steps < MaxFormatSteps /\ ProcessEscapeSequence(SgrSequences)
    \/ steps < MaxFormatSteps /\ PutCharacter({ Ascii.a })

SpecFormat == Init /\ [][NextFormat]_vars

(***************************************************************************)
(* SpecScroll: scrollScreen called directly, on screens shaped by resize,  *)
(* scroll-region and alternate-screen sequences and character writes.      *)
(***************************************************************************)
ScrollSizes == {1, MaxRows} \X {1}

RegionFull == Enc(<< "ESC", "LBR", "r" >>)
RegionLower == Enc(<< "ESC", "LBR", "D2", "SEMI", "D3", "r" >>)
AltOn == Enc(<< "ESC", "LBR", "QM", "D4", "D7", "h" >>)
AltOff == Enc(<< "ESC", "LBR", "QM", "D4", "D7", "l" >>)

ScrollSequences == { RegionFull, RegionLower, AltOn, AltOff }

ScrollAmounts == ((0 - MaxScroll)..MaxScroll) \ {0}

NextScroll ==
    \/ Initialize(ScrollSizes)
    \/ steps < MaxScrollSteps /\ Resize(ScrollSizes)
    \/ steps < MaxScrollSteps /\ ProcessEscapeSequence(ScrollSequences)
    \/ steps < MaxScrollSteps /\ PutCharacter({ Ascii.a })
    \/ steps < MaxScrollSteps /\ ScrollScreen(ScrollAmounts)

SpecScroll == Init /\ [][NextScroll]_vars

(***************************************************************************)
(* SpecScreens: the two screens under character writes, erases, clears,    *)
(* scrolls, alternate-screen switches and resize calls.                    *)
(***************************************************************************)
ScreenSizes == {1, MaxRows} \X { MaxCols }

Alt1049On == Enc(<< "ESC", "LBR", "QM", "D1", "D0", "D4", "D9", "h" >>)
Alt1049Off == Enc(<< "ESC", "LBR", "QM", "D1", "D0", "D4", "D9", "l" >>)
EraseDisplay == Enc(<< "ESC", "LBR", "D2", "J" >>)
EraseLine == Enc(<< "ESC", "LBR", "K" >>)
Ris == Enc(<< "ESC", "c" >>)
FormFeed == Enc(<< "FF" >>)

ModeSequences == { AltOn, AltOff, Alt1049On, Alt1049Off }

ScreenSequences == ModeSequences \cup { EraseDisplay, EraseLine, Ris }

NextScreens ==
    \/ Initialize(ScreenSizes)
    \/ steps < MaxScreenSteps /\ Resize(ScreenSizes)
    \/ steps < MaxScreenSteps /\ ProcessEscapeSequence(ScreenSequences)
    \/ steps < MaxScreenSteps /\ ProcessOutputData({ FormFeed })
    \/ steps < MaxScreenSteps /\ PutCharacter({ Ascii.a })
    \/ steps < MaxScreenSteps /\ ScrollScreen({ -1, 1 })

SpecScreens == Init /\ [][NextScreens]_vars

(***************************************************************************)
(* SpecSession: the shell session: startShell, reads from the PTY with     *)
(* every kind of result, input, key presses, commands, and the             *)
(* bracketed-paste mode sequences.                                         *)
(***************************************************************************)
SessionSizes == { << 1, MaxCols >> }

HomeDir == Enc(<< "SLASH", "h" >>)

ReadResults ==
    { ReadResult(1, Text, "none"), ReadResult(0, << >>, "none"),
      ReadResult(0 - 1, << >>, "EAGAIN"), ReadResult(0 - 1, << >>, "EIO") }

KeyPresses ==
    { << QtKey.Key_Return, KeyboardModifiers(FALSE, FALSE, FALSE), << Ascii.CR >> >>,
      << QtKey.Key_Up, KeyboardModifiers(FALSE, FALSE, FALSE), << >> >>,
      << QtKey.Key_A, KeyboardModifiers(FALSE, TRUE, FALSE), << 1 >> >> }

PasteOn == Enc(<< "ESC", "LBR", "QM", "D2", "D0", "D0", "D4", "h" >>)
PasteOff == Enc(<< "ESC", "LBR", "QM", "D2", "D0", "D0", "D4", "l" >>)

PasteSequences == { PasteOn, PasteOff }

Payloads == { << >>, Text }

NextSession ==
    \/ Initialize(SessionSizes)
    \/ steps < MaxSessionSteps /\ StartShell(StartOutcomes, { HomeDir })
    \/ steps < MaxSessionSteps /\ ReadFromShell(ReadResults)
    \/ steps < MaxSessionSteps /\ ProcessInput(Payloads)
    \/ steps < MaxSessionSteps /\ ProcessKeyPress(KeyPresses)
    \/ steps < MaxSessionSteps /\ ExecuteCommand({ Text })
    \/ steps < MaxSessionSteps /\ ProcessEscapeSequence(PasteSequences)

SpecSession == Init /\ [][NextSession]_vars

(***************************************************************************)
(* SpecStray: input the emulator is to ignore, escape sequences it does    *)
(* not know and repeated initialize calls, between ordinary text.          *)
(***************************************************************************)
\* ESC followed by a byte processEscapeSequence has no case for, then text:
\* ESC Z a, ESC = a, ESC ( B a.
UnknownEscapes ==
    { << Ascii.ESC, Ascii.Z, Ascii.a >>,
      << Ascii.ESC, 61, Ascii.a >>,
      << Ascii.ESC, 40, Ascii.B, Ascii.a >> }

NextStray ==
    \/ Initialize(Sizes)
    \/ steps < MaxStraySteps /\ InitializeAgain(Sizes)
    \/ steps < MaxStraySteps /\ ProcessOutputData(UnknownEscapes \cup { Text, SgrRed })
    \/ steps < MaxStraySteps /\ ProcessEscapeSequence({ RegionLower, AltOn })

SpecStray == Init /\ [][NextStray]_vars

(***************************************************************************)
(* SpecRecords: blocks created and cleared, commands completed and         *)
(* submitted.                                                              *)
(***************************************************************************)
\* An operation on the records that leaves the block model b and the
\* histories h.
Recorded(name, args, b, h) ==
    /\ blockModel' = b
    /\ m_commandHistory' = h
    /\ preRecords' = [blockModel |-> blockModel, m_commandHistory |-> m_commandHistory]
    /\ issued' = IF name \in { "createBlock", "onCommandDetected" }
                     /\ b.m_nextBlockId # blockModel.m_nextBlockId
                  THEN Append(issued, b.m_blocks[Len(b.m_blocks)].id)
                  ELSE issued
    /\ op' = [name |-> name, args |-> args]
    /\ steps' = steps + 1
    /\ UNCHANGED << m_initialized, m_screen, m_alternateScreen, m_currentFormat,
                    m_cursorPosition, m_terminalSize, m_cursorVisible,
                    m_alternateScreenActive, m_applicationCursorKeys,
                    m_bracketedPasteMode, m_scrollRegionTop, m_scrollRegionBottom,
                    m_savedCursorPosition, m_savedFormat, m_defaultForeground,
           m_defaultBackground, m_escapeBuffer,
                    m_parsingEscapeSequence, m_newLineMode, m_workingDirectory,
                    m_terminalTitle, m_ptyFd, m_ptyNotifier, m_shellPid, m_busy,
                    m_lastExitCode, m_commandExecuting, m_currentCommand,
                    m_currentOutput, m_blockModeEnabled, m_currentBlockId,
                    ptyCalls, emitted, ub, ret, pre, op2, pre2 >>

CreateBlock(commands) ==
    \E command \in commands :
       Recorded("createBlock", command, createBlock(blockModel, command),
                m_commandHistory)

OnCommandDetected(commands) ==
    \E command \in commands :
       Recorded("onCommandDetected", command, onCommandDetected(blockModel, command),
                m_commandHistory)

ClearBlocks == Recorded("clear", << >>, BlockModel_clear(blockModel), m_commandHistory)

DetectCommand(commands) ==
    \E command \in commands :
       Recorded("detectCommand", command, blockModel,
                [m_commandHistory EXCEPT
                    !.QTermWidgetEmulator = detectCommand(@, command)])

SubmitInput(texts) ==
    \E text \in texts :
       Recorded("submitInput", text, blockModel,
                [m_commandHistory EXCEPT !.CommandInput = submitInput(@, text)])

\* The commands run: a, b, and none.
RecordCommands == { << Ascii.a >>, << Ascii.b >>, << >> }

NextRecords ==
    \/ steps < MaxRecordSteps /\ CreateBlock(RecordCommands)
    \/ steps < MaxRecordSteps /\ OnCommandDetected(RecordCommands)
    \/ steps < MaxRecordSteps /\ ClearBlocks
    \/ steps < MaxRecordSteps /\ DetectCommand(RecordCommands)
    \/ steps < MaxRecordSteps /\ SubmitInput(RecordCommands)

SpecRecords == Init /\ [][NextRecords]_vars

(***************************************************************************)
(* SpecCommands: commands started one after the other while output         *)
(* arrives.                                                                *)
(***************************************************************************)
NextCommands ==
    \/ Initialize(SessionSizes)
    \/ steps < MaxCommandSteps /\ StartShell({ sys \in StartOutcomes : sys.fork }, { HomeDir })
    \/ steps < MaxCommandSteps /\ ReadFromShell({ ReadResult(1, Text, "none") })
    \/ steps < MaxCommandSteps /\ ExecuteCommand({ Enc(<< "a" >>), Enc(<< "b" >>) })

SpecCommands == Init /\ [][NextCommands]_vars

(***************************************************************************)
(* SpecLineFeed: line feeds on screens with a scroll region, in and out of *)
(* new-line mode, the cursor placed by writes and by CSI H.                *)
(***************************************************************************)
LineFeedSizes == { MaxRows } \X { 1, 2 }

RegionUpper == Enc(<< "ESC", "LBR", "D1", "SEMI", "D2", "r" >>)
LnmOn == Enc(<< "ESC", "LBR", "D2", "D0", "h" >>)
LnmOff == Enc(<< "ESC", "LBR", "D2", "D0", "l" >>)
ToLastRow == Enc(<< "ESC", "LBR", "D3", "SEMI", "D2", "H" >>)

LineFeedSequences == { RegionUpper, RegionLower, LnmOn, LnmOff, ToLastRow }

NextLineFeed ==
    \/ Initialize(LineFeedSizes)
    \/ steps < MaxLineFeedSteps /\ ProcessEscapeSequence(LineFeedSequences)
    \/ steps < MaxLineFeedSteps /\ ProcessOutputData({ LineFeed })
    \/ steps < MaxLineFeedSteps /\ PutCharacter({ Ascii.a })

SpecLineFeed == Init /\ [][NextLineFeed]_vars

(***************************************************************************)
(* SpecRegion: scroll-region requests (CSI r) with present, absent, empty, *)
(* zero, too large and inverted parameters, the cursor placed by writes    *)
(* and by CSI H.                                                           *)
(***************************************************************************)
RegionInverted == Enc(<< "ESC", "LBR", "D3", "SEMI", "D2", "r" >>)
RegionSingle == Enc(<< "ESC", "LBR", "D2", "SEMI", "D2", "r" >>)
RegionFrom2 == Enc(<< "ESC", "LBR", "D2", "r" >>)
RegionTo9 == Enc(<< "ESC", "LBR", "SEMI", "D9", "r" >>)
RegionZero == Enc(<< "ESC", "LBR", "D2", "SEMI", "D0", "r" >>)

RegionSequences ==
    { RegionFull, RegionUpper, RegionLower, RegionInverted, RegionSingle,
      RegionFrom2, RegionTo9, RegionZero }

NextRegion ==
    \/ Initialize(LineFeedSizes)
    \/ steps < MaxRegionSteps /\ ProcessEscapeSequence(RegionSequences \cup { ToLastRow })
    \/ steps < MaxRegionSteps /\ PutCharacter({ Ascii.a })

SpecRegion == Init /\ [][NextRegion]_vars

(***************************************************************************)
(* SpecPosition: absolute cursor positioning (CSI H, f, G) with present,   *)
(* absent, empty, unparsable, zero, negative and too large parameters, on  *)
(* screens with text.                                                      *)
(***************************************************************************)
Cup(params, final) == Enc(<< "ESC", "LBR" >>) \o Enc(params) \o Enc(<< final >>)

\* A positioning request: its bytes, whether it names a row (H, f) or only a
\* column (G), and the 1-based row and column it carries, << >> standing for
\* a parameter that is absent or that is not a number.
PositionRequest(sequence, hasRow, row, col) ==
    [sequence |-> sequence, hasRow |-> hasRow, row |-> row, col |-> col]

PositionRequests ==
    { PositionRequest(Cup(<< >>, "H"), TRUE, << >>, << >>),
      PositionRequest(Cup(<< "D2", "SEMI", "D3" >>, "H"), TRUE, << 2 >>, << 3 >>),
      PositionRequest(Cup(<< "D0", "SEMI", "D0" >>, "H"), TRUE, << 0 >>, << 0 >>),
      PositionRequest(Cup(<< "D9", "SEMI", "D9" >>, "H"), TRUE, << 9 >>, << 9 >>),
      PositionRequest(Cup(<< "SEMI", "D2" >>, "f"), TRUE, << >>, << 2 >>),
      PositionRequest(Cup(<< "D2" >>, "f"), TRUE, << 2 >>, << >>),
      PositionRequest(Cup(<< "MINUS", "D1", "SEMI", "MINUS" >>, "H"), TRUE, << -1 >>, << >>),
      PositionRequest(Cup(<< >>, "G"), FALSE, << >>, << >>),
      PositionRequest(Cup(<< "D3" >>, "G"), FALSE, << >>, << 3 >>),
      PositionRequest(Cup(<< "D0" >>, "G"), FALSE, << >>, << 0 >>),
      PositionRequest(Cup(<< "D9" >>, "G"), FALSE, << >>, << 9 >>),
      PositionRequest(Cup(<< "PLUS" >>, "G"), FALSE, << >>, << >>) }

PositionSequences == { q.sequence : q \in PositionRequests }

NextPosition ==
    \/ Initialize(ScreenSizes)
    \/ steps < MaxPositionSteps /\ ProcessEscapeSequence(PositionSequences \cup { SgrRed })
    \/ steps < MaxPositionSteps /\ PutCharacter({ Ascii.a })

SpecPosition == Init /\ [][NextPosition]_vars

(***************************************************************************)
(* SpecErase: erase-display (CSI J) and erase-line (CSI K) in every mode,  *)
(* on screens filled with text, with the cursor inside the screen and with *)
(* the alternate screen switched in.                                       *)
(***************************************************************************)
Erase(params, final) == Enc(<< "ESC", "LBR" >>) \o Enc(params) \o Enc(<< final >>)

\* An erase request: its bytes, whether it is erase-display (J) or
\* erase-line (K), and its mode number.
EraseRequest(sequence, display, mode) ==
    [sequence |-> sequence, display |-> display, mode |-> mode]

EraseRequests ==
    { EraseRequest(Erase(<< >>, "J"), TRUE, 0),
      EraseRequest(Erase(<< "D1" >>, "J"), TRUE, 1),
      EraseRequest(Erase(<< "D2" >>, "J"), TRUE, 2),
      EraseRequest(Erase(<< "D3" >>, "J"), TRUE, 3),
      EraseRequest(Erase(<< "D4" >>, "J"), TRUE, 4),
      EraseRequest(Erase(<< >>, "K"), FALSE, 0),
      EraseRequest(Erase(<< "D1" >>, "K"), FALSE, 1),
      EraseRequest(Erase(<< "D2" >>, "K"), FALSE, 2),
      EraseRequest(Erase(<< "D3" >>, "K"), FALSE, 3) }

EraseSequences == { q.sequence : q \in EraseRequests }

\* Text that fills the largest screen.
Fill == [i \in 1..(MaxRows * MaxCols) |-> Ascii.a]

NextErase ==
    \/ Initialize(ScreenSizes)
    \/ steps < MaxEraseSteps
          /\ ProcessEscapeSequence(EraseSequences \cup { AltOn, Cup(<< "D2", "SEMI", "D3" >>, "H") })
    \/ steps < MaxEraseSteps /\ ProcessOutputData({ Fill })

SpecErase == Init /\ [][NextErase]_vars

(***************************************************************************)
(* SpecAttributes: the attribute-setting SGR parameters and the parameters *)
(* 20 higher, mixed with colour changes.                                   *)
(***************************************************************************)
\* The SGR parameters that set an attribute, and the attribute each sets.
SettingParameters == { 1, 2, 3, 4, 5, 7, 8, 9 }

AttributeSetBy(n) ==
    CASE n = 1 -> Attr.Bold
      [] n = 2 -> Attr.Dim
      [] n = 3 -> Attr.Italic
      [] n = 4 -> Attr.Underline
      [] n = 5 -> Attr.Blink
      [] n = 7 -> Attr.Reverse
      [] n = 8 -> Attr.Invisible
      [] n = 9 -> Attr.StrikeThrough

\* The decimal digits of a number below 100, and CSI n m.
Decimal(n) ==
    IF n < 10 THEN << Ascii.D0 + n >>
    ELSE << Ascii.D0 + (n \div 10), Ascii.D0 + (n % 10) >>

SgrOf(n) == Enc(<< "ESC", "LBR" >>) \o Decimal(n) \o Enc(<< "m" >>)

AttributeSequences ==
    { SgrOf(n) : n \in SettingParameters }
       \cup { SgrOf(20 + n) : n \in SettingParameters }
       \cup { SgrRed, Sgr(<< "D4", "D2" >>) }

NextAttributes ==
    \/ Initialize(SessionSizes)
    \/ steps < MaxAttributeSteps /\ ProcessEscapeSequence(AttributeSequences)

SpecAttributes == Init /\ [][NextAttributes]_vars

(***************************************************************************)
(* SpecColours: SGR lists with extended-colour groups (38 and 48) at every *)
(* position, with unrecognized codes and with 256-colour indices in and    *)
(* out of range.                                                           *)
(***************************************************************************)
\* The decimal digits of an integer of at most three digits, with its sign.
RECURSIVE Numeral(_)
Numeral(n) ==
    IF n < 0 THEN << Ascii.MINUS >> \o Numeral(0 - n)
    ELSE IF n < 10 THEN << Ascii.D0 + n >>
    ELSE Numeral(n \div 10) \o << Ascii.D0 + (n % 10) >>

RECURSIVE Joined(_)
Joined(params) ==
    IF params = << >> THEN << >>
    ELSE IF Len(params) = 1 THEN Numeral(params[1])
    ELSE Numeral(params[1]) \o << Ascii.SEMI >> \o Joined(Tail(params))

\* CSI p1;p2;... m
SgrList(params) == Enc(<< "ESC", "LBR" >>) \o Joined(params) \o Enc(<< "m" >>)

\* An SGR list with one extended-colour group: the ordinary parameters
\* before it, the ground it colours, the colour it selects, the ordinary
\* parameters after it.
ColourRequest(params, before, ground, color, after) ==
    [sequence |-> SgrList(params), before |-> before, ground |-> ground,
     color |-> color, after |-> after]

ColourRequests ==
    { ColourRequest(<< 38, 5, 4, 1 >>, << >>, "foreground", << 0, 0, 170 >>, << 1 >>),
      ColourRequest(<< 1, 38, 5, 4 >>, << 1 >>, "foreground", << 0, 0, 170 >>, << >>),
      ColourRequest(<< 3, 48, 5, 4, 7 >>, << 3 >>, "background", << 0, 0, 170 >>, << 7 >>),
      ColourRequest(<< 38, 2, 1, 2, 3, 4 >>, << >>, "foreground", << 1, 2, 3 >>, << 4 >>),
      ColourRequest(<< 7, 48, 2, 1, 2, 3 >>, << 7 >>, "background", << 1, 2, 3 >>, << >>),
      ColourRequest(<< 9, 38, 5, 196, 31 >>, << 9 >>, "foreground", << 255, 0, 0 >>, << 31 >>) }

ColourSequences == { q.sequence : q \in ColourRequests }

\* Two SGR lists, the first being the second with an unrecognized code
\* inserted outside its extended-colour groups.
Insertion(with, without) == [with |-> with, without |-> without]

Insertions ==
    { Insertion(<< 99, 1 >>, << 1 >>),
      Insertion(<< 1, 99, 4 >>, << 1, 4 >>),
      Insertion(<< 31, 26 >>, << 31 >>),
      Insertion(<< 38, 5, 4, 99, 7 >>, << 38, 5, 4, 7 >>),
      Insertion(<< 200, 48, 2, 1, 2, 3 >>, << 48, 2, 1, 2, 3 >>),
      Insertion(<< 0, 99 >>, << 0 >>),
      Insertion(<< 99 >>, << >>) }

InsertionSequences == { SgrList(q.with) : q \in Insertions }

\* 256-colour indices: the ends of the three ranges, one inside each, and
\* indices below 0 and above 255.
IndexSamples == { -1, 0, 15, 16, 100, 231, 232, 255, 256 }

IndexSequences ==
    { SgrList(<< 38, 5, n >>) : n \in IndexSamples }
       \cup { SgrList(<< 48, 5, n >>) : n \in IndexSamples }

NextColours ==
    \/ Initialize(SessionSizes)
    \/ steps < MaxColourSteps /\ ProcessEscapeSequence(ColourSequences \cup InsertionSequences \cup IndexSequences)

SpecColours == Init /\ [][NextColours]_vars

(***************************************************************************)
(* SpecSnapshot: the saved cursor: the four save and the four restore      *)
(* sequences, received from the PTY and dispatched directly, between       *)
(* writes, cursor moves and SGR changes.                                   *)
(***************************************************************************)
SaveSequences ==
    { Enc(<< "ESC", "D7" >>),
      Enc(<< "ESC", "LBR", "s" >>),
      Enc(<< "ESC", "LBR", "QM", "D1", "D0", "D4", "D8", "h" >>),
      Alt1049On }

RestoreSequences ==
    { Enc(<< "ESC", "D8" >>),
      Enc(<< "ESC", "LBR", "u" >>),
      Enc(<< "ESC", "LBR", "QM", "D1", "D0", "D4", "D8", "l" >>),
      Alt1049Off }

NextSnapshot ==
    \/ Initialize(SessionSizes)
    \/ steps < MaxSnapshotSteps
          /\ ProcessOutputData(SaveSequences \cup RestoreSequences \cup { Text })
    \/ steps < MaxSnapshotSteps
          /\ ProcessEscapeSequence(SaveSequences \cup RestoreSequences
                                      \cup { SgrRed, Cup(<< "D1", "SEMI", "D3" >>, "H") })

SpecSnapshot == Init /\ [][NextSnapshot]_vars

(***************************************************************************)
(* SpecOsc: OSC sequences with the codes 0, 2 and 7, ended by BEL and by   *)
(* ESC \, dispatched by processEscapeSequence.                             *)
(***************************************************************************)
\* An OSC sequence: its code, its payload, its terminator, its bytes.
OscRequest(code, payload, terminator) ==
    [code |-> code, payload |-> payload,
     sequence |-> Enc(<< "ESC", "RBR" >>) \o << Ascii.D0 + code, Ascii.SEMI >>
                     \o payload \o terminator]

OscPayloads == { Enc(<< "p" >>), Enc(<< "SLASH", "p" >>) }

OscTerminators == { Enc(<< "BEL" >>), Enc(<< "ESC", "BSL" >>) }

OscRequests ==
    { OscRequest(code, payload, terminator) :
         code \in { 0, 2, 7 }, payload \in OscPayloads, terminator \in OscTerminators }

NextOsc ==
    \/ Initialize(SessionSizes)
    \/ steps < MaxOscSteps /\ ProcessEscapeSequence({ q.sequence : q \in OscRequests })

SpecOsc == Init /\ [][NextOsc]_vars

(***************************************************************************)
(* SpecReset: ESC c after writes, SGR changes, a switch to the alternate   *)
(* screen and changes of the session's default colours.                    *)
(***************************************************************************)
NextReset ==
    \/ Initialize(ScreenSizes)
    \/ steps < MaxResetSteps /\ SetDefaultForegroundColor({ Palette(2) })
    \/ steps < MaxResetSteps /\ SetDefaultBackgroundColor({ Palette(4) })
    \/ steps < MaxResetSteps /\ ProcessOutputData({ Ris, Text })
    \/ steps < MaxResetSteps /\ ProcessEscapeSequence({ Ris, SgrRed, Sgr(<< "D1" >>), AltOn })

SpecReset == Init /\ [][NextReset]_vars

(***************************************************************************)
(* SpecCursor: the cursor's visibility under CSI ?25h, CSI ?25l,           *)
(* setCursorVisible and the timeouts of the blink timer.                   *)
(***************************************************************************)
CursorHide == Enc(<< "ESC", "LBR", "QM", "D2", "D5", "l" >>)
CursorShow == Enc(<< "ESC", "LBR", "QM", "D2", "D5", "h" >>)

NextCursor ==
    \/ Initialize(SessionSizes)
    \/ steps < MaxCursorSteps /\ CursorBlinkTimeout
    \/ steps < MaxCursorSteps /\ SetCursorVisible
    \/ steps < MaxCursorSteps /\ ProcessEscapeSequence({ CursorHide, CursorShow })
    \/ steps < MaxCursorSteps /\ ProcessOutputData({ CursorHide, CursorShow, Text })

SpecCursor == Init /\ [][NextCursor]_vars

(***************************************************************************)
(* SpecBlocks: commands run through BlockModel::executeCommand and through *)
(* WarpKateView::executeCommand on an emulator the block model is          *)
(* connected to, and command-executed events arriving.                     *)
(***************************************************************************)
BlockCommands == { Enc(<< "a" >>), Enc(<< "b" >>) }

NextBlocks ==
    \/ Initialize(SessionSizes)
    \/ steps < MaxBlockSteps /\ StartShell({ sys \in StartOutcomes : sys.fork }, { HomeDir })
    \/ steps < MaxBlockSteps /\ BlockModelExecuteCommand(BlockCommands)
    \/ steps < MaxBlockSteps /\ WarpKateViewExecuteCommand(BlockCommands \cup { << >> })
    \/ steps < MaxBlockSteps /\ OnCommandExecuted(BlockCommands, { 0, 1 })

SpecBlocks == Init /\ [][NextBlocks]_vars

(***************************************************************************)
(* Properties.                                                             *)
(***************************************************************************)
Fed(data) == op.name = "processOutputData" /\ op.args = data

Ground(s) == ~s.m_parsingEscapeSequence /\ s.m_escapeBuffer = << >>

BlankLine(width, fmt) == [i \in 1..width |-> TerminalCell(Ascii.SP, fmt)]

BlankScreen(s) ==
    /\ ~s.m_alternateScreenActive
    /\ s.m_cursorPosition = QPoint(0, 0)
    /\ \A y \in 1..Len(s.m_screen) :
          s.m_screen[y] = BlankLine(s.m_terminalSize.width, DefaultFormat)

RedForeground == [DefaultFormat EXCEPT !.foreground = Palette(1)]

\* C1: a complete CSI sequence fed to processOutputData is consumed whole:
\* none of its bytes reaches a screen cell and its effect is applied.  ESC[31m
\* fed in the ground state leaves every cell as it was, makes the foreground
\* red and returns the parser to the ground state; A ESC[31m B ESC[0m C on a
\* blank 1-row screen leaves A (default), B (red), C (default) in columns
\* 0..2 and the cursor at column 3.
C1_CsiSequenceConsumed ==
    /\ (Fed(SgrRed) /\ Ground(pre))
          => /\ m_screen = pre.m_screen
             /\ m_currentFormat = [pre.m_currentFormat EXCEPT !.foreground = Palette(1)]
             /\ Ground(Emu)
    /\ (Fed(Example1) /\ Ground(pre) /\ BlankScreen(pre)
            /\ pre.m_terminalSize.height = 1 /\ pre.m_terminalSize.width >= 4)
          => /\ m_screen[1][1] = TerminalCell(Ascii.A, DefaultFormat)
             /\ m_screen[1][2] = TerminalCell(Ascii.B, RedForeground)
             /\ m_screen[1][3] = TerminalCell(Ascii.C, DefaultFormat)
             /\ m_cursorPosition = QPoint(3, 0)

FullRegion(s) ==
    /\ s.m_scrollRegionTop = 0
    /\ s.m_scrollRegionBottom = s.m_terminalSize.height - 1

\* C2: with the default scroll region on a screen of R >= 2 rows, a line
\* feed received with the cursor on the last row discards row 0, appends a
\* blank last row and leaves the cursor on the last row; so R + 1 lines
\* written to a blank R-row screen leave the second line on row 0 and the
\* last line on the last row.
C2_LineFeedOnLastRowScrolls ==
    /\ (Fed(LineFeed) /\ Ground(pre) /\ ~pre.m_alternateScreenActive
            /\ FullRegion(pre) /\ pre.m_terminalSize.height >= 2
            /\ pre.m_cursorPosition.y = pre.m_terminalSize.height - 1)
          => /\ m_screen = Tail(pre.m_screen)
                             \o << BlankLine(pre.m_terminalSize.width, pre.m_currentFormat) >>
             /\ m_cursorPosition.y = m_terminalSize.height - 1
    /\ (Fed(OneLineTooMany) /\ Ground(pre) /\ BlankScreen(pre) /\ FullRegion(pre)
            /\ pre.m_terminalSize.height = MaxRows /\ pre.m_terminalSize.width >= 2)
          => /\ m_screen[1][1].character = LineLetter(2)
             /\ m_screen[MaxRows][1].character = LineLetter(MaxRows + 1)

\* C5: ESC ] 7 ; <path> BEL fed in the ground state raises exactly one
\* working-directory-changed event carrying <path>, makes <path> the working
\* directory and changes no cell of either screen.
C5_Osc7RaisesOneEvent ==
    (Fed(Osc7) /\ Ground(pre))
       => /\ SelectSeq(emitted, LAMBDA sig : sig[1] = "workingDirectoryChanged")
                = << << "workingDirectoryChanged", Osc7Path >> >>
          /\ m_workingDirectory = Osc7Path
          /\ m_screen = pre.m_screen
          /\ m_alternateScreen = pre.m_alternateScreen

\* C6: ESC[?1049h followed by ESC[?1049l, fed with the primary screen active,
\* restores the cursor position and the current Format to their values before
\* the set and leaves the primary screen active with its content unchanged.
C6_Mode1049RoundTrip ==
    (Fed(Toggle1049) /\ Ground(pre) /\ ~pre.m_alternateScreenActive)
       => /\ m_cursorPosition = pre.m_cursorPosition
          /\ m_currentFormat = pre.m_currentFormat
          /\ ~m_alternateScreenActive
          /\ m_screen = pre.m_screen

\* C10: after initialize the cursor always lies inside the terminal:
\* 0 <= column < cols and 0 <= row < rows.
C10_CursorInsideScreen ==
    m_initialized
       => /\ m_cursorPosition.x >= 0 /\ m_cursorPosition.x < m_terminalSize.width
          /\ m_cursorPosition.y >= 0 /\ m_cursorPosition.y < m_terminalSize.height

(***************************************************************************)
(* Properties of SpecSplit.                                                *)
(***************************************************************************)
BothFed == op.name = "processOutputData" /\ op2.name = "processOutputData"

\* What the application can observe of the emulator, signals aside.
Observable(s) == [s EXCEPT !.emitted = << >>, !.ptyCalls = << >>]

\* C3: the parser is resumable: a byte string holding a complete CSI or OSC
\* sequence, delivered as two processOutputData calls split at any point,
\* leaves the screens, the cursor, the Format, the modes and the parser in
\* the state one call with the whole string leaves them in.
C3_SplitFeedEqualsWholeFeed ==
    (BothFed /\ (op2.args \o op.args) \in SplitSequences)
       => \A u \in UBOutcomes :
             Observable(Emu) =
                Observable(processOutputData(Observable(pre2), op2.args \o op.args, u))

\* The split fell inside an escape sequence: the first call ended with the
\* sequence begun and the second call completed it.
C3_SplitInsideSequence ==
    /\ BothFed
    /\ (op2.args \o op.args) \in SplitSequences
    /\ op2.args # << >> /\ op.args # << >>
    /\ pre.m_parsingEscapeSequence
    /\ ~m_parsingEscapeSequence

(***************************************************************************)
(* Properties of SpecFormat.                                               *)
(***************************************************************************)
\* C4: resize(rows, cols) leaves a rows x cols active screen in which every
\* cell that existed before and lies inside the new bounds keeps its character
\* and Format, and every other cell is a space with the default Format,
\* whatever the current Format is.
C4_ResizeKeepsCellsExposesDefault ==
    LET old == activeScreen(pre)
        new == activeScreen(Emu)
    IN  op.name = "resize"
           => /\ Len(new) = op.args[1]
              /\ \A y \in 1..Len(new) :
                    /\ Len(new[y]) = op.args[2]
                    /\ \A x \in 1..Len(new[y]) :
                          new[y][x] =
                             IF y <= Len(old) /\ x <= Len(old[y]) THEN old[y][x]
                             ELSE TerminalCell(Ascii.SP, DefaultFormat)

IsSgrReset(o) == o.name = "processEscapeSequence" /\ o.args \in { Sgr0, SgrEmpty }

\* C7: SGR reset is total and idempotent: after ESC[0m (or ESC[m), whatever
\* SGR sequences came before it, the current Format is exactly the default
\* Format and no cell and no cursor coordinate has changed.
C7_SgrResetGivesDefaultFormat ==
    IsSgrReset(op)
       => /\ m_currentFormat = DefaultFormat
          /\ m_screen = pre.m_screen
          /\ m_cursorPosition = pre.m_cursorPosition

\* A reset that had something to undo: attributes and a foreground colour set
\* by earlier SGR sequences.
C7_ResetAfterStyling ==
    /\ IsSgrReset(op)
    /\ pre.m_currentFormat.attributes # 0
    /\ pre.m_currentFormat.foreground # m_defaultForeground
    /\ m_currentFormat = DefaultFormat

(***************************************************************************)
(* Properties of SpecScroll.                                               *)
(***************************************************************************)
\* C8: scrollScreen(n) with scroll region top >= bottom changes nothing.
C8_DegenerateRegionScrollIsNoOp ==
    (op.name = "scrollScreen" /\ pre.m_scrollRegionTop >= pre.m_scrollRegionBottom)
       => Emu = Observable(pre)

\* scrollScreen called with top = bottom on a screen of several rows whose
\* region row holds a written cell.
C8_DegenerateRegionWithContent ==
    /\ op.name = "scrollScreen"
    /\ pre.m_scrollRegionTop >= pre.m_scrollRegionBottom
    /\ pre.m_terminalSize.height > 1
    /\ activeScreen(pre)[pre.m_scrollRegionTop + 1][1].character # Ascii.SP
    /\ Emu = Observable(pre)

\* C9: with top < bottom and 1 <= N <= bottom - top + 1, scrollScreen(N)
\* followed by scrollScreen(-N) keeps the number of rows of the active
\* screen, leaves every row outside top..bottom as it was, leaves rows
\* top..top+N-1 blank and rows top+N..bottom with their original content.
C9_ScrollUpThenDown ==
    LET N == op2.args
        top == pre2.m_scrollRegionTop
        bottom == pre2.m_scrollRegionBottom
        before == activeScreen(pre2)
        after == activeScreen(Emu)
    IN  (/\ op2.name = "scrollScreen" /\ op.name = "scrollScreen"
         /\ N >= 1 /\ op.args = 0 - N
         /\ top < bottom /\ N <= bottom - top + 1)
           => /\ Len(after) = Len(before)
              /\ \A y \in 1..Len(before) :
                    (y - 1 < top \/ y - 1 > bottom)
                       => y \in DOMAIN after /\ after[y] = before[y]
              /\ \A y \in (top + 1)..(top + N) :
                    /\ y \in DOMAIN after
                    /\ \A x \in DOMAIN after[y] : after[y][x].character = Ascii.SP
              /\ \A y \in (top + N + 1)..(bottom + 1) :
                    /\ y \in DOMAIN after /\ y \in DOMAIN before
                    /\ after[y] = before[y]

(***************************************************************************)
(* Properties of SpecScreens.                                              *)
(***************************************************************************)
\* C11: a character write, an erase, a clear or a scroll changes no cell of
\* the screen that is not active, and a mode 47/1047/1049 switch changes no
\* cell of either screen; so the primary screen shown after the reset is the
\* one left when the alternate screen was entered.
C11_OnlyActiveScreenChanges ==
    (op.name \in { "putCharacter", "scrollScreen", "processEscapeSequence",
                   "processOutputData" })
       => /\ pre.m_alternateScreenActive => m_screen = pre.m_screen
          /\ ~pre.m_alternateScreenActive => m_alternateScreen = pre.m_alternateScreen
          /\ (op.name = "processEscapeSequence" /\ op.args \in ModeSequences)
                => m_screen = pre.m_screen /\ m_alternateScreen = pre.m_alternateScreen

\* A character written while the alternate screen is active and the primary
\* screen holds a written cell.
C11_WriteOnAlternateScreen ==
    /\ op.name = "putCharacter"
    /\ pre.m_alternateScreenActive
    /\ m_alternateScreen # pre.m_alternateScreen
    /\ \E y \in DOMAIN m_screen : \E x \in DOMAIN m_screen[y] :
          m_screen[y][x].character = Ascii.a
    /\ m_screen = pre.m_screen

ScreenHasTerminalSize(scr) ==
    /\ Len(scr) = m_terminalSize.height
    /\ \A y \in DOMAIN scr : Len(scr[y]) = m_terminalSize.width

\* C12: after initialize, whatever bytes, screen switches and resize calls
\* follow, the primary and the alternate screen both have exactly rows lines
\* of exactly cols cells.
C12_ScreensHaveTerminalSize ==
    m_initialized
       => ScreenHasTerminalSize(m_screen) /\ ScreenHasTerminalSize(m_alternateScreen)

(***************************************************************************)
(* Properties of the cell accessors, over the states of SpecFormat.        *)
(***************************************************************************)
\* The coordinates read: the screen and one position beyond each edge.
ReadColumns == (0 - 1)..(MaxCols + 1)
ReadRows == (0 - 1)..(MaxRows + 1)

\* C13: reading a cell never fails: at every position outside the screen
\* (negative or beyond the last row or column) and at every position of the
\* screen its line does not hold, characterAt returns a space and formatAt
\* returns the current Format.
C13_ReadOutsideScreenIsBlank ==
    m_initialized
       => \A x \in ReadColumns, y \in ReadRows :
             (\/ outsideScreen(Emu, x, y)
              \/ x >= Len(activeScreen(Emu)[y + 1]))
                => /\ characterAt(Emu, x, y) = Ascii.SP
                   /\ formatAt(Emu, x, y) = m_currentFormat

(***************************************************************************)
(* Properties of SpecSession.                                              *)
(***************************************************************************)
\* The operations that talk to the shell.
SessionOps == { "readFromShell", "processInput", "processKeyPress", "executeCommand" }

ShellFinished(sigs) == SelectSeq(sigs, LAMBDA sig : sig[1] = "shellFinished")

Called(calls, name) == SelectSeq(calls, LAMBDA call : call[1] = name)

\* C14: a read of zero bytes leaves the session not busy, its notifier
\* disabled and its descriptor closed and forgotten, and emits shellFinished
\* once with m_lastExitCode; while no descriptor is open, readFromShell,
\* processInput, processKeyPress and executeCommand make no system call and
\* emit no shellFinished.
C14_EofEndsSession ==
    /\ (op.name = "readFromShell" /\ op.args.n = 0 /\ pre.m_ptyFd >= 0)
          => /\ ~m_busy
             /\ m_ptyNotifier = "disabled"
             /\ m_ptyFd < 0
             /\ Called(ptyCalls, "close") = << << "close", pre.m_ptyFd >> >>
             /\ ShellFinished(emitted) = << << "shellFinished", pre.m_lastExitCode >> >>
    /\ (op.name \in SessionOps /\ pre.m_ptyFd < 0)
          => /\ ptyCalls = << >>
             /\ ShellFinished(emitted) = << >>

\* A command executed right after the read that found the shell gone.
C14_CommandAfterEof ==
    /\ op2.name = "readFromShell" /\ op2.args.n = 0 /\ pre2.m_ptyFd >= 0
    /\ pre2.m_busy
    /\ op.name = "executeCommand"
    /\ pre.m_ptyFd < 0

\* C15: a read that fails with EAGAIN or EWOULDBLOCK changes nothing and
\* emits nothing; a read that fails with any other error ends the session:
\* not busy, descriptor closed, shellFinished emitted.
C15_ReadErrorEndsSession ==
    (op.name = "readFromShell" /\ op.args.n < 0 /\ pre.m_ptyFd >= 0)
       => IF op.args.errno \in WouldBlock
          THEN Observable(Emu) = Observable(pre) /\ emitted = << >>
          ELSE /\ ~m_busy
               /\ m_ptyFd < 0
               /\ Called(ptyCalls, "close") # << >>
               /\ ShellFinished(emitted) # << >>

(***************************************************************************)
(* Properties of the parser's handling of sequences it cannot finish.      *)
(***************************************************************************)
\* C16: when the bytes fed from the ground state begin a CSI or OSC sequence
\* that processCSI or processOSC reports as incomplete (return value 0), the
\* parser holds all of them in m_escapeBuffer and is still collecting; none
\* of them was written to the screen.
C16_IncompleteSequenceStaysBuffered ==
    (/\ op.name = "processOutputData"
     /\ Ground(pre)
     /\ Len(op.args) >= 2
     /\ op.args[1] = Ascii.ESC
     /\ op.args[2] \in { Ascii.LBR, Ascii.RBR }
     /\ processEscapeSequence(pre, op.args).ret = 0)
       => /\ m_parsingEscapeSequence
          /\ m_escapeBuffer = op.args
          /\ m_screen = pre.m_screen
          /\ m_alternateScreen = pre.m_alternateScreen

(***************************************************************************)
(* Properties of SpecStray.                                                *)
(***************************************************************************)
\* The second bytes processEscapeSequence has a case for.
KnownSecondBytes ==
    { Ascii.LBR, Ascii.RBR, Ascii.D, Ascii.M, Ascii.E, Ascii.c, Ascii.D7, Ascii.D8 }

\* C17: bytes fed from the ground state that start with ESC and a second
\* byte processEscapeSequence has no case for leave the emulator as the
\* bytes after those two alone would: the two bytes change nothing and no
\* byte after them is swallowed.
C17_UnknownEscapeSkipsTwoBytes ==
    (/\ op.name = "processOutputData"
     /\ Ground(pre)
     /\ Len(op.args) >= 2
     /\ op.args[1] = Ascii.ESC
     /\ op.args[2] \notin KnownSecondBytes)
       => \E u \in UBOutcomes :
             [Observable(Emu) EXCEPT !.ret = 0] =
                [Observable(processOutputData(pre, Tail(Tail(op.args)), u))
                    EXCEPT !.ret = 0]

\* C18: initialize called on an initialized emulator, with whatever rows and
\* cols, returns true and changes nothing: terminal size, both screens,
\* cursor, scroll region and every other member are as before the call, and
\* no signal is emitted.
C18_SecondInitializeIsNoOp ==
    (op.name = "initialize" /\ pre.m_initialized)
       => /\ ret = 1
          /\ emitted = << >>
          /\ [Observable(Emu) EXCEPT !.ret = 0] = [Observable(pre) EXCEPT !.ret = 0]

\* initialize called with another size on an emulator that holds text and
\* whose cursor has left the origin.
C18_InitializeAfterText ==
    /\ op.name = "initialize"
    /\ pre.m_initialized
    /\ op.args # << pre.m_terminalSize.height, pre.m_terminalSize.width >>
    /\ pre.m_screen[1][1].character = Ascii.a
    /\ pre.m_cursorPosition # QPoint(0, 0)
    /\ m_screen = pre.m_screen

\* The payload between the bracketed-paste markers ESC[200~ and ESC[201~.
Bracketed(payload) ==
    << 27, 91, 50, 48, 48, 126 >> \o payload \o << 27, 91, 50, 48, 49, 126 >>

\* C19: processInput makes no system call when no PTY is open or the session
\* is not busy; otherwise it makes one write to the PTY, of the payload
\* between ESC[200~ and ESC[201~ when the payload is not empty and
\* m_bracketedPasteMode is set, of the payload itself when not.  The mode is
\* set by CSI ?2004h, reset by CSI ?2004l and changed by nothing else.
C19_BracketedPasteWrapsInput ==
    /\ op.name = "processInput"
          => IF pre.m_ptyFd < 0 \/ ~pre.m_busy THEN ptyCalls = << >>
             ELSE IF pre.m_bracketedPasteMode /\ op.args # << >>
             THEN ptyCalls = << << "write", pre.m_ptyFd, Bracketed(op.args) >> >>
             ELSE ptyCalls = << << "write", pre.m_ptyFd, op.args >> >>
    /\ IF op.name = "processEscapeSequence" /\ op.args \in PasteSequences
       THEN m_bracketedPasteMode = (op.args = PasteOn)
       ELSE m_bracketedPasteMode = pre.m_bracketedPasteMode

\* Text pasted into a running session right after CSI ?2004h.
C19_PasteAfterModeSet ==
    /\ op2.name = "processEscapeSequence" /\ op2.args = PasteOn
    /\ op.name = "processInput" /\ op.args = Text
    /\ pre.m_ptyFd >= 0 /\ pre.m_busy
    /\ ptyCalls = << << "write", pre.m_ptyFd, Bracketed(Text) >> >>

(***************************************************************************)
(* Properties of SpecCommands.                                             *)
(***************************************************************************)
\* C20: a command started by executeCommand starts with an empty output
\* accumulator: right after an executeCommand call that reached the PTY,
\* m_currentOutput holds nothing received before it.
C20_NewCommandResetsOutput ==
    (op.name = "executeCommand" /\ pre.m_ptyFd >= 0 /\ pre.m_busy)
       => /\ m_commandExecuting
          /\ m_currentOutput = << >>

\* C21: when the shell exits (a read of zero bytes on the open PTY), the
\* command in flight is finalized: m_commandExecuting is cleared.
C21_ShellExitEndsCommand ==
    (op.name = "readFromShell" /\ op.args.n = 0 /\ pre.m_ptyFd >= 0)
       => ~m_commandExecuting

(***************************************************************************)
(* Properties of SpecRecords.                                              *)
(***************************************************************************)
\* C22: when detectCommand finds a command completed, the command is appended
\* at the end of the history unless it is the history's last entry; the
\* entries already there stay as they are, whether or not the command is
\* one of them.
C22_CompletedCommandAppended ==
    (op.name = "detectCommand" /\ op.args # << >>)
       => LET Kept(old) ==
                  IF old # << >> /\ old[Len(old)] = op.args THEN old
                  ELSE Append(old, op.args)
          IN  m_commandHistory.QTermWidgetEmulator =
                 Kept(preRecords.m_commandHistory.QTermWidgetEmulator)

\* C23: the block ids handed out are strictly increasing: whatever blocks
\* were created and cleared before, a new block gets an id greater than
\* every id issued before it.
C23_BlockIdsIncrease ==
    \A i \in DOMAIN issued : \A j \in DOMAIN issued : i < j => issued[i] < issued[j]

\* The descriptors closed by the last operation.
ClosedDescriptors == { ptyCalls[i][2] : i \in { k \in DOMAIN ptyCalls : ptyCalls[k][1] = "close" } }

C25_WriteInLastColumnWraps ==
    (/\ op.name = "putCharacter"
     /\ pre.m_cursorPosition.x = pre.m_terminalSize.width - 1
     /\ pre.m_cursorPosition.y \in 0..(pre.m_terminalSize.height - 1)
     /\ Len(activeScreen(pre)) = pre.m_terminalSize.height
     /\ pre.m_scrollRegionTop < pre.m_scrollRegionBottom)
       => IF pre.m_cursorPosition.y = pre.m_scrollRegionBottom
          THEN /\ m_cursorPosition = QPoint(0, pre.m_scrollRegionBottom)
               /\ \A x \in DOMAIN activeScreen(Emu)[pre.m_scrollRegionBottom + 1] :
                     activeScreen(Emu)[pre.m_scrollRegionBottom + 1][x].character
                        = Ascii.SP
          ELSE pre.m_cursorPosition.y + 1 < pre.m_terminalSize.height
                  => /\ m_cursorPosition = QPoint(0, pre.m_cursorPosition.y + 1)
                     /\ activeScreen(Emu)[pre.m_cursorPosition.y + 1]
                                         [pre.m_cursorPosition.x + 1]
                           = TerminalCell(op.args, pre.m_currentFormat)

\* C26: a line feed received in the ground state scrolls the scroll region
\* by one line exactly when the cursor was on the region's bottom row (rows
\* top+1..bottom move up one row, the bottom row becomes blank, the rows
\* outside the region stay, the cursor stays on the bottom row); in every
\* other case the active screen is unchanged and the cursor moves down one
\* row, at most to the last row.  The column becomes 0 exactly when new-line
\* mode is set, else it is unchanged.
C26_LineFeedScrollsOnBottomRow ==
    (/\ Fed(LineFeed) /\ Ground(pre)
     /\ Len(activeScreen(pre)) = pre.m_terminalSize.height
     /\ pre.m_cursorPosition.y \in 0..(pre.m_terminalSize.height - 1))
       => LET top == pre.m_scrollRegionTop
              bottom == pre.m_scrollRegionBottom
              y == pre.m_cursorPosition.y
              was == activeScreen(pre)
              now == activeScreen(Emu)
          IN  /\ IF y = bottom
                 THEN /\ Len(now) = Len(was)
                      /\ \A r \in 1..Len(was) :
                            now[r] = IF r - 1 \in top..(bottom - 1) THEN was[r + 1]
                                     ELSE IF r - 1 = bottom
                                     THEN BlankLine(pre.m_terminalSize.width,
                                                    pre.m_currentFormat)
                                     ELSE was[r]
                      /\ m_cursorPosition.y = bottom
                 ELSE /\ now = was
                      /\ m_cursorPosition.y = Min(y + 1, pre.m_terminalSize.height - 1)
              /\ m_cursorPosition.x = IF pre.m_newLineMode THEN 0
                                      ELSE pre.m_cursorPosition.x

(***************************************************************************)
(* Properties of the CSI commands.                                         *)
(***************************************************************************)
\* The 1-based rows a scroll-region request names; bottom is << >> when the
\* request has no second parameter.
RegionRequest(sequence, top, bottom) ==
    [sequence |-> sequence, top |-> top, bottom |-> bottom]

RegionRequests ==
    { RegionRequest(RegionFull, 1, << >>),
      RegionRequest(RegionUpper, 1, << 2 >>),
      RegionRequest(RegionLower, 2, << 3 >>),
      RegionRequest(RegionInverted, 3, << 2 >>),
      RegionRequest(RegionSingle, 2, << 2 >>),
      RegionRequest(RegionFrom2, 2, << >>),
      RegionRequest(RegionTo9, 1, << 9 >>),
      RegionRequest(RegionZero, 2, << 0 >>) }

\* C27: CSI top;bottom r, with top and bottom made 0-based (an absent top is
\* the first row, an absent bottom the last row, a bottom beyond the screen
\* the last row): if top < bottom the scroll region becomes [top, bottom] and
\* the cursor goes to column 0 of row top; otherwise the scroll region and
\* the cursor are as they were.
C27_RegionRequestNeedsTopBelowBottom ==
    \A q \in RegionRequests :
       (op.name = "processEscapeSequence" /\ op.args = q.sequence)
          => LET height == pre.m_terminalSize.height
                 top == q.top - 1
                 bottom == Min(IF q.bottom = << >> THEN height ELSE q.bottom[1],
                               height) - 1
             IN  IF top < bottom
                 THEN /\ m_scrollRegionTop = top
                      /\ m_scrollRegionBottom = bottom
                      /\ m_cursorPosition = QPoint(0, top)
                 ELSE /\ m_scrollRegionTop = pre.m_scrollRegionTop
                      /\ m_scrollRegionBottom = pre.m_scrollRegionBottom
                      /\ m_cursorPosition = pre.m_cursorPosition

\* An inverted request arrives after an accepted one and a move of the
\* cursor, and changes neither the region nor the cursor.
C27_InvertedRequestAfterRegionSet ==
    /\ op.name = "processEscapeSequence" /\ op.args = RegionInverted
    /\ op2.name = "processEscapeSequence" /\ op2.args = ToLastRow
    /\ m_scrollRegionTop = 1
    /\ m_scrollRegionBottom = 2
    /\ m_cursorPosition.y = 2

\* The value a positioning parameter counts as: 1 when it is absent, not a
\* number or below 1.
Counted(p) == IF p = << >> THEN 1 ELSE Max(p[1], 1)

\* C28: CSI row;col H, CSI row;col f and CSI col G leave the cursor at column
\* min(max(col, 1), cols) - 1 and at row min(max(row, 1), rows) - 1 (G: at
\* the row it was on), an absent or unparsable parameter counting as 1, and
\* change no cell of either screen and not the current format.
C28_AbsolutePositionClamped ==
    \A q \in PositionRequests :
       (op.name = "processEscapeSequence" /\ op.args = q.sequence)
          => /\ m_cursorPosition.x
                   = Min(Counted(q.col), pre.m_terminalSize.width) - 1
             /\ m_cursorPosition.y
                   = IF q.hasRow
                     THEN Min(Counted(q.row), pre.m_terminalSize.height) - 1
                     ELSE pre.m_cursorPosition.y
             /\ m_screen = pre.m_screen
             /\ m_alternateScreen = pre.m_alternateScreen
             /\ m_currentFormat = pre.m_currentFormat

\* CSI 9;9 H arrives on a screen of more than one row with red text on it
\* and the cursor off the last cell.
C28_FarPositionOnWrittenScreen ==
    /\ op.name = "processEscapeSequence"
    /\ op.args = Cup(<< "D9", "SEMI", "D9" >>, "H")
    /\ pre.m_terminalSize.height > 1
    /\ pre.m_currentFormat = RedForeground
    /\ pre.m_screen[1][1] = TerminalCell(Ascii.a, RedForeground)
    /\ pre.m_cursorPosition = QPoint(1, 0)
    /\ m_cursorPosition = QPoint(m_terminalSize.width - 1, m_terminalSize.height - 1)

\* Whether the cell at column x of row y (0-based) is one that the erase
\* request q names, the cursor being at column cx of row cy.
Named(q, cx, cy, x, y) ==
    /\ q.display \/ y = cy
    /\ CASE q.mode = 0 -> y > cy \/ (y = cy /\ x >= cx)
         [] q.mode = 1 -> y < cy \/ (y = cy /\ x <= cx)
         [] q.mode = 2 -> TRUE
         [] OTHER -> FALSE

\* C29: CSI J and CSI K replace exactly the cells their mode names on the
\* active screen by blanks in the current format (mode 0: the cursor cell to
\* the end of the line or screen, mode 1: the start of the line or screen
\* to the cursor cell, mode 2: the whole line or screen, any other mode:
\* none) and leave every other cell of the active screen, the inactive
\* screen, the cursor and the current format as they were.
C29_EraseBlanksNamedCellsOnly ==
    \A q \in EraseRequests :
       (op.name = "processEscapeSequence" /\ op.args = q.sequence)
          => LET was == activeScreen(pre)
                 now == activeScreen(Emu)
                 cx == pre.m_cursorPosition.x
                 cy == pre.m_cursorPosition.y
             IN  /\ Len(now) = Len(was)
                 /\ \A r \in 1..Len(was) :
                       /\ Len(now[r]) = Len(was[r])
                       /\ \A c \in 1..Len(was[r]) :
                             now[r][c] = IF Named(q, cx, cy, c - 1, r - 1)
                                         THEN TerminalCell(Ascii.SP, pre.m_currentFormat)
                                         ELSE was[r][c]
                 /\ m_alternateScreenActive = pre.m_alternateScreenActive
                 /\ IF pre.m_alternateScreenActive
                    THEN m_screen = pre.m_screen
                    ELSE m_alternateScreen = pre.m_alternateScreen
                 /\ m_cursorPosition = pre.m_cursorPosition
                 /\ m_currentFormat = pre.m_currentFormat

(***************************************************************************)
(* Properties of SGR.                                                      *)
(***************************************************************************)
\* C30: for each n in {1, 2, 3, 4, 5, 7, 8, 9}, SGR n followed by SGR 20+n
\* leaves the attribute that n sets cleared, and the foreground and the
\* background as they were before the two.
C30_TwentyHigherUnsets ==
    \A n \in SettingParameters :
       (/\ op2.name = "processEscapeSequence" /\ op2.args = SgrOf(n)
        /\ op.name = "processEscapeSequence" /\ op.args = SgrOf(20 + n))
          => /\ ~HasBit(m_currentFormat.attributes, AttributeSetBy(n))
             /\ m_currentFormat.foreground = pre2.m_currentFormat.foreground
             /\ m_currentFormat.background = pre2.m_currentFormat.background

\* The format after the ordinary SGR parameters params, one by one.
Applied(s, params) == IF params = << >> THEN s ELSE processSGR(s, params)

\* C31: an SGR list with a group 38;5;n, 38;2;r;g;b, 48;5;n or 48;2;r;g;b,
\* at the start, in the middle or at the end of the list, gives the format
\* that the parameters before the group, then the group's colour on its
\* ground alone, then the parameters after the group give: no value of the
\* group acts as an SGR code.
C31_ExtendedColourGroupConsumed ==
    \A q \in ColourRequests :
       (op.name = "processEscapeSequence" /\ op.args = q.sequence)
          => LET first == Applied(pre, q.before)
                 coloured == [first EXCEPT !.m_currentFormat[q.ground] = q.color]
             IN  m_currentFormat = Applied(coloured, q.after).m_currentFormat

\* CSI 1;38;5;4 m, the group last in the list, arrives with a background
\* and an attribute set by an earlier list.
C31_GroupLastInList ==
    /\ op.name = "processEscapeSequence"
    /\ op.args = SgrList(<< 1, 38, 5, 4 >>)
    /\ pre.m_currentFormat.background = << 1, 2, 3 >>
    /\ HasBit(pre.m_currentFormat.attributes, Attr.Reverse)
    /\ m_currentFormat.foreground = << 0, 0, 170 >>
    /\ ~HasBit(m_currentFormat.attributes, Attr.Blink)

\* Whether the SGR list with the unrecognized code has left the format that
\* the list without it gives from the same state.
SameAsWithout(q) ==
    (op.name = "processEscapeSequence" /\ op.args = SgrList(q.with))
       => m_currentFormat
             = processEscapeSequence(pre, SgrList(q.without)).m_currentFormat

\* C32: an unrecognized code inserted into a non-empty SGR list, outside its
\* extended-colour groups, changes nothing: the list with the code gives the
\* format the list without it gives, the parameters after the code included.
C32_UnrecognizedCodeIgnored ==
    \A q \in Insertions : q.without # << >> => SameAsWithout(q)

\* C32 as stated, for every list, the empty one included.
C32_UnrecognizedCodeIgnoredInEveryList ==
    \A q \in Insertions : SameAsWithout(q)

\* CSI 1;99;4 m arrives with a non-default foreground and sets both bold and
\* underline.
C32_CodeBetweenTwoAttributes ==
    /\ op.name = "processEscapeSequence"
    /\ op.args = SgrList(<< 1, 99, 4 >>)
    /\ pre.m_currentFormat.attributes = 0
    /\ pre.m_currentFormat.foreground # m_defaultForeground
    /\ HasBit(m_currentFormat.attributes, Attr.Bold)
    /\ HasBit(m_currentFormat.attributes, Attr.Underline)

\* The colour of the 256-colour index n in 0..255: an ANSI base colour, an
\* entry of the 6x6x6 cube, or a step of the grayscale ramp.
IndexedColour(n) ==
    IF n <= 15 THEN m_colorPalette[n + 1]
    ELSE IF n <= 231
    THEN << ((n - 16) \div 36) * 51, (((n - 16) \div 6) % 6) * 51, ((n - 16) % 6) * 51 >>
    ELSE << (n - 232) * 11, (n - 232) * 11, (n - 232) * 11 >>

\* C33: SGR 38;5;n sets the foreground, and SGR 48;5;n the background, to
\* the colour of index n, an index below 0 counting as 0 and one above 255
\* as 255; every component of the colour set is in 0..255.
C33_IndexedColourInRange ==
    \A n \in IndexSamples :
       LET colour == IndexedColour(Max(0, Min(n, 255)))
       IN  /\ (op.name = "processEscapeSequence" /\ op.args = SgrList(<< 38, 5, n >>))
                 => /\ m_currentFormat.foreground = colour
                    /\ \A k \in 1..3 : m_currentFormat.foreground[k] \in 0..255
           /\ (op.name = "processEscapeSequence" /\ op.args = SgrList(<< 48, 5, n >>))
                 => /\ m_currentFormat.background = colour
                    /\ \A k \in 1..3 : m_currentFormat.background[k] \in 0..255

(***************************************************************************)
(* Properties of the saved cursor.                                         *)
(***************************************************************************)
\* The sequence has just been received whole: from the PTY with the parser
\* in the ground state, or by a direct dispatch.
Received(sequence) ==
    /\ \/ op.name = "processOutputData" /\ Ground(pre)
       \/ op.name = "processEscapeSequence"
    /\ op.args = sequence

\* C34: there is one saved-cursor snapshot.  Each of ESC 7, CSI s,
\* CSI ?1048h and CSI ?1049h makes it the cursor position and the current
\* format of the moment; each of ESC 8, CSI u, CSI ?1048l and CSI ?1049l
\* makes the cursor position and the current format equal to the snapshot,
\* whichever form wrote it, and leaves the snapshot as it was.
C34_OneSavedCursorSnapshot ==
    /\ \A sequence \in SaveSequences :
          Received(sequence)
             => /\ m_savedCursorPosition = pre.m_cursorPosition
                /\ m_savedFormat = pre.m_currentFormat
    /\ \A sequence \in RestoreSequences :
          Received(sequence)
             => /\ m_cursorPosition = pre.m_savedCursorPosition
                /\ m_currentFormat = pre.m_savedFormat
                /\ m_savedCursorPosition = pre.m_savedCursorPosition
                /\ m_savedFormat = pre.m_savedFormat

(***************************************************************************)
(* Properties of OSC.                                                      *)
(***************************************************************************)
\* C35: an OSC sequence with code 0 or 2 makes its payload the title and
\* emits titleChanged with it, one with code 7 makes its payload the working
\* directory and emits workingDirectoryChanged with it, the payload being
\* the bytes between the first semicolon and the terminator, whether the
\* terminator is BEL or ESC \.
C35_OscTerminatorsAlike ==
    \A q \in OscRequests :
       (op.name = "processEscapeSequence" /\ op.args = q.sequence)
          => IF q.code = 7
             THEN /\ m_workingDirectory = q.payload
                  /\ emitted = << << "workingDirectoryChanged", q.payload >> >>
             ELSE /\ m_terminalTitle = q.payload
                  /\ emitted = << << "titleChanged", q.payload >> >>

(***************************************************************************)
(* Properties of the full reset and of the cursor's visibility.            *)
(***************************************************************************)
\* C36: after ESC c the current format is the session's default foreground
\* and background with no attribute, every cell of the active screen is a
\* space, and the cursor is at (0, 0).
C36_FullResetGivesSessionDefaults ==
    Received(Ris)
       => /\ m_currentFormat = DefaultFormat
          /\ \A y \in 1..Len(activeScreen(Emu)) :
                \A x \in 1..Len(activeScreen(Emu)[y]) :
                   activeScreen(Emu)[y][x].character = Ascii.SP
          /\ m_cursorPosition = QPoint(0, 0)

\* C37: a timeout of the blink timer that follows CSI ?25l leaves
\* isCursorVisible() false, and one that follows CSI ?25h leaves it true:
\* the visibility the child asked for lasts until the next CSI ?25h,
\* CSI ?25l or setCursorVisible.
C37_BlinkKeepsCursorMode ==
    (/\ op.name = "cursorBlinkTimeout"
     /\ op2.name = "processEscapeSequence"
     /\ op2.args \in { CursorHide, CursorShow })
       => isCursorVisible(Emu) = (op2.args = CursorShow)

(***************************************************************************)
(* Properties of the scroll region under initialize and resize.            *)
(***************************************************************************)
\* C38: initialize makes the scroll region the full screen, initialize and
\* resize keep a region that is the full screen the full screen of the new
\* size, and on an initialized emulator 0 <= top <= bottom <= rows - 1.
C38_RegionFullScreenUntilSet ==
    /\ (op.name = "initialize" /\ ~pre.m_initialized) => FullRegion(Emu)
    /\ (/\ op.name \in { "initialize", "resize" }
        /\ pre.m_initialized
        /\ FullRegion(pre))
          => FullRegion(Emu)
    /\ m_initialized
          => /\ 0 <= m_scrollRegionTop
             /\ m_scrollRegionTop <= m_scrollRegionBottom
             /\ m_scrollRegionBottom <= m_terminalSize.height - 1

(***************************************************************************)
(* Properties of the commands run through the block model and the view.    *)
(***************************************************************************)
Running(s) == s.m_ptyFd >= 0 /\ s.m_busy

\* The blocks of b that hold command.
BlocksOf(b, command) == { i \in DOMAIN b.m_blocks : b.m_blocks[i].command = command }

\* C39: with the block model connected to a running emulator in block mode,
\* BlockModel::executeCommand adds exactly one block, the block whose id it
\* returns; and when the command-executed event of that command arrives
\* next, that block becomes Completed (exit code 0) or Failed with the
\* reported exit code and no block of the command created since the call is
\* left Executing.
C39_OneBlockPerExecutedCommand ==
    /\ (/\ op.name = "BlockModel::executeCommand"
        /\ Running(pre) /\ pre.m_blockModeEnabled)
          => /\ Len(blockModel.m_blocks) = Len(preRecords.blockModel.m_blocks) + 1
             /\ blockModel.m_blocks[Len(blockModel.m_blocks)].id = op.args[2]
    /\ (/\ op.name = "onCommandExecuted"
        /\ op2.name = "BlockModel::executeCommand"
        /\ Running(pre2) /\ pre2.m_blockModeEnabled
        /\ op2.args[1] = op.args[1]
        /\ \A i \in BlocksOf(preRecords.blockModel, op.args[1]) :
              preRecords.blockModel.m_blocks[i].id >= op2.args[2])
          => \A i \in BlocksOf(blockModel, op.args[1]) :
                /\ blockModel.m_blocks[i].state # "Executing"
                /\ blockModel.m_blocks[i].id = op2.args[2]
                      => /\ blockModel.m_blocks[i].exitCode = op.args[2]
                         /\ blockModel.m_blocks[i].state =
                               IF op.args[2] = 0 THEN "Completed" ELSE "Failed"

\* The number of elements of the sequence calls that equal call.
Times(calls, call) == Cardinality({ i \in DOMAIN calls : calls[i] = call })

\* C40: a non-empty command submitted through WarpKateView::executeCommand
\* to a running emulator in block mode is written to the PTY exactly once
\* and raises command-detected exactly once.
C40_CommandWrittenAndDetectedOnce ==
    (/\ op.name = "WarpKateView::executeCommand"
     /\ op.args # << >>
     /\ Running(pre) /\ pre.m_blockModeEnabled)
       => /\ Times(ptyCalls, << "write", pre.m_ptyFd, toUtf8(op.args) >>) = 1
          /\ Times(emitted, << "commandDetected", op.args >>) = 1

====
